---- MODULE Spec2Model ----
(***************************************************************************)
(* A model of the front end of the compiler: the UTF-8 utilities           *)
(* (utils/utf8.c), the keyword table (lexer/keywords.c), the diagnostics   *)
(* registry (utils/error.c), the lexer (lexer/lexer.c) and the syntax tree *)
(* (parser/ast.c).                                                         *)
(*                                                                         *)
(* C strings are sequences of bytes 1..255; the terminating NUL is         *)
(* implicit (ByteAt reads 0 at and past the end) and the null pointer is   *)
(* the value NULL.   Codepoints are unsigned 32-bit values; every value the  *)
(* code computes from bytes stays below 2^21, so no operation wraps.        *)
(***************************************************************************)
EXTENDS Integers, Sequences, FiniteSets, Bags, TLC

VARIABLES
    pc,               \* harness of the pure functions: "call" | "done" | "idle"
    fn,               \* the function the harness calls
    arg,              \* its arguments
    result,           \* what it returned (and wrote through its out parameter)
    error_count,      \* utils/error.c: number of entries of error_list in use
    error_list,       \* the entries error_list[0 .. error_count - 1], as a bag
    error_log_file,   \* "NULL" or "open"
    released,         \* the entries whose strings error_cleanup has freed, as a bag
    notices,          \* "Too many errors" lines written since error_init
    exited,           \* exit(EXIT_FAILURE) was called
    last,             \* the last call of the diagnostics interface and its outcome
    lexer,            \* lexer/lexer.c: the LexerState
    calls,            \* the calls made of the lexer and the tokens they returned
    ctype_outside,    \* what isdigit, isxdigit answer outside their domain
    heap,             \* parser/ast.c: the blocks malloc returned
    ast               \* the trees N and c and the calls made on them

callVars == <<pc, fn, arg, result>>

errVars ==
    <<error_count, error_list, error_log_file, released, notices, exited, last>>

lexVars == <<lexer, calls, ctype_outside>>

astVars == <<heap, ast>>

vars == <<callVars, errVars, lexVars, astVars>>

----------------------------------------------------------------------------
(* Machine arithmetic *)

\* the null char pointer (no string holds the byte -1)
NULL == <<-1>>

\* the null utf8_char_t pointer
NULL_CHAR == [bytes |-> <<>>, len |-> -1, codepoint |-> -1]

\* (char) of an integer, as the byte stored
ToByte(x) == x % 256

\* x & m for a mask m that keeps the bits from bit k upwards (0x80: k = 7,
\* 0xC0: k = 6, 0xE0: k = 5, 0xF0: k = 4, 0xF8: k = 3) of a byte
AndHigh(x, k) == (x \div (2 ^ k)) * (2 ^ k)

\* x & m for a mask m that keeps the k low bits (0x3F: k = 6, 0x1F: k = 5,
\* 0x0F: k = 4, 0x07: k = 3)
AndLow(x, k) == x % (2 ^ k)

\* x >> k
Shr(x, k) == x \div (2 ^ k)

\* (x << k) | y on uint32, for y < 2^k and x < 2^(32 - k)
ShlOr(x, k, y) == x * (2 ^ k) + y

\* w, read once v is computed: a statement of C is complete before the next
\* one begins, while the value of an operator's argument is computed where
\* the operator first reads it
After(v, w) == IF v = v THEN w ELSE w

\* str[i] of a NUL-terminated string
ByteAt(str, i) == IF i < Len(str) THEN str[i + 1] ELSE 0

\* the pointer str + i
Suffix(str, i) == SubSeq(str, i + 1, Len(str))

\* the C string made of the first n bytes of a byte array followed by NUL
RECURSIVE CStringOf(_, _, _)
CStringOf(bytes, i, n) ==
    IF i > n \/ bytes[i] = 0 THEN <<>>
    ELSE <<bytes[i]>> \o CStringOf(bytes, i + 1, n)

Sign(x) == IF x < 0 THEN -1 ELSE IF x > 0 THEN 1 ELSE 0

----------------------------------------------------------------------------
(* utils/utf8.h, utils/utf8.c *)

UTF8_MAX_BYTES == 4

UTF8_IS_CONTINUATION(byte) == AndHigh(byte, 6) = 128

\* memset(character, 0, sizeof(utf8_char_t))
ZeroChar == [bytes |-> <<0, 0, 0, 0>>, len |-> 0, codepoint |-> 0]

\* a record that was not initialised, or holds what an earlier use left
StaleChar == [bytes |-> <<255, 255, 255, 255>>, len |-> 4, codepoint |-> 65533]

\* the continuation loop of utf8_decode, from index i: the record and the
\* codepoint read so far, and whether the loop returned 0
RECURSIVE DecodeContinuation(_, _, _, _, _)
DecodeContinuation(str, i, num_bytes, ch, codepoint) ==
    IF i >= num_bytes THEN [failed |-> FALSE, ch |-> ch, codepoint |-> codepoint]
    ELSE IF ByteAt(str, i) = 0
        THEN [failed |-> TRUE, ch |-> ch, codepoint |-> codepoint]
    ELSE IF ~UTF8_IS_CONTINUATION(ByteAt(str, i))
        THEN [failed |-> TRUE, ch |-> ch, codepoint |-> codepoint]
    ELSE DecodeContinuation(str, i + 1, num_bytes,
             [ch EXCEPT !.bytes[i + 1] = ByteAt(str, i)],
             ShlOr(codepoint, 6, AndLow(ByteAt(str, i), 6)))

\* DecodeOverlong with the three-byte floor of the two-byte class
DecodeOverlong_floor3(num_bytes, codepoint) ==
    \/ num_bytes = 2 /\ codepoint < 128
    \/ num_bytes = 3 /\ codepoint < 128
    \/ num_bytes = 4 /\ codepoint < 65536

\* the checks of utf8_decode after the continuation bytes were read
DecodeOverlong(num_bytes, codepoint) ==
    \/ num_bytes = 2 /\ codepoint < 128
    \/ num_bytes = 3 /\ codepoint < 2048
    \/ num_bytes = 4 /\ codepoint < 65536

DecodeInvalidCodepoint(codepoint) ==
    \/ codepoint > 1114111
    \/ codepoint >= 55296 /\ codepoint <= 57343

DecodeBody(str, num_bytes, lead) ==
    LET first == [ZeroChar EXCEPT !.bytes[1] = ByteAt(str, 0)]
        loop == DecodeContinuation(str, 1, num_bytes, first, lead)
        set == [loop.ch EXCEPT !.len = num_bytes, !.codepoint = loop.codepoint]
    IN  IF loop.failed THEN [ret |-> 0, character |-> loop.ch]
        ELSE IF DecodeOverlong(num_bytes, loop.codepoint)
            THEN [ret |-> 0, character |-> set]
        ELSE IF DecodeInvalidCodepoint(loop.codepoint)
            THEN [ret |-> 0, character |-> set]
        ELSE [ret |-> num_bytes, character |-> set]

\* int utf8_decode(const char* str, utf8_char_t* character): the value
\* returned and the record character points to afterwards (character is NULL_CHAR
\* or the caller's record as it was before the call)
utf8_decode(str, character) ==
    IF str = NULL \/ character = NULL_CHAR THEN [ret |-> 0, character |-> character]
    ELSE IF ByteAt(str, 0) = 0 THEN [ret |-> 0, character |-> ZeroChar]
    ELSE LET first_byte == ByteAt(str, 0)
         IN  IF AndHigh(first_byte, 7) = 0
                 THEN DecodeBody(str, 1, first_byte)
             ELSE IF AndHigh(first_byte, 5) = 192
                 THEN DecodeBody(str, 2, AndLow(first_byte, 5))
             ELSE IF AndHigh(first_byte, 4) = 224
                 THEN DecodeBody(str, 3, AndLow(first_byte, 4))
             ELSE IF AndHigh(first_byte, 3) = 240
                 THEN DecodeBody(str, 4, AndLow(first_byte, 3))
             ELSE [ret |-> 0,
                   character |-> [ZeroChar EXCEPT !.bytes[1] = first_byte]]

\* utf8_encode with the two-byte class one codepoint too wide
utf8_encode_wide2(codepoint, character) ==
    IF character = NULL_CHAR THEN [ret |-> 0, character |-> character]
    ELSE LET stored == [ZeroChar EXCEPT !.codepoint = codepoint]
         IN  IF codepoint < 128 THEN
                 [ret |-> 1,
                  character |-> [stored EXCEPT !.len = 1,
                      !.bytes = <<ToByte(codepoint), 0, 0, 0>>]]
             ELSE IF codepoint <= 2048 THEN
                 [ret |-> 2,
                  character |-> [stored EXCEPT !.len = 2,
                      !.bytes = <<ToByte(192 + Shr(codepoint, 6)),
                                  ToByte(128 + AndLow(codepoint, 6)), 0, 0>>]]
             ELSE IF codepoint < 65536 THEN
                 [ret |-> 3,
                  character |-> [stored EXCEPT !.len = 3,
                      !.bytes = <<ToByte(224 + Shr(codepoint, 12)),
                                  ToByte(128 + AndLow(Shr(codepoint, 6), 6)),
                                  ToByte(128 + AndLow(codepoint, 6)), 0>>]]
             ELSE IF codepoint <= 1114111 THEN
                 [ret |-> 4,
                  character |-> [stored EXCEPT !.len = 4,
                      !.bytes = <<ToByte(240 + Shr(codepoint, 18)),
                                  ToByte(128 + AndLow(Shr(codepoint, 12), 6)),
                                  ToByte(128 + AndLow(Shr(codepoint, 6), 6)),
                                  ToByte(128 + AndLow(codepoint, 6))>>]]
             ELSE [ret |-> 0, character |-> stored]

\* int utf8_encode(utf8_codepoint_t codepoint, utf8_char_t* character)
utf8_encode(codepoint, character) ==
    IF character = NULL_CHAR THEN [ret |-> 0, character |-> character]
    ELSE LET stored == [ZeroChar EXCEPT !.codepoint = codepoint]
         IN  IF codepoint < 128 THEN
                 [ret |-> 1,
                  character |-> [stored EXCEPT !.len = 1,
                      !.bytes = <<ToByte(codepoint), 0, 0, 0>>]]
             ELSE IF codepoint < 2048 THEN
                 [ret |-> 2,
                  character |-> [stored EXCEPT !.len = 2,
                      !.bytes = <<ToByte(192 + Shr(codepoint, 6)),
                                  ToByte(128 + AndLow(codepoint, 6)), 0, 0>>]]
             ELSE IF codepoint < 65536 THEN
                 [ret |-> 3,
                  character |-> [stored EXCEPT !.len = 3,
                      !.bytes = <<ToByte(224 + Shr(codepoint, 12)),
                                  ToByte(128 + AndLow(Shr(codepoint, 6), 6)),
                                  ToByte(128 + AndLow(codepoint, 6)), 0>>]]
             ELSE IF codepoint <= 1114111 THEN
                 [ret |-> 4,
                  character |-> [stored EXCEPT !.len = 4,
                      !.bytes = <<ToByte(240 + Shr(codepoint, 18)),
                                  ToByte(128 + AndLow(Shr(codepoint, 12), 6)),
                                  ToByte(128 + AndLow(Shr(codepoint, 6), 6)),
                                  ToByte(128 + AndLow(codepoint, 6))>>]]
             ELSE [ret |-> 0, character |-> stored]

\* ch1.codepoint - ch2.codepoint, an unsigned 32-bit difference returned as
\* int: both operands were decoded, so they are below 2^21 and the wrapped
\* difference read as int is the difference
CodepointDifference(c1, c2) == c1 - c2

\* StrcmpEnd with a prefix comparing equal to the longer string
StrcmpEnd_prefixEqual(str1, str2, p1, p2) == 0

\* the end of utf8_strcmp, after the loop has stopped at p1, p2
StrcmpEnd(str1, str2, p1, p2) ==
    IF ByteAt(str1, p1) # 0 THEN 1
    ELSE IF ByteAt(str2, p2) # 0 THEN -1
    ELSE 0

\* the loop of utf8_strcmp with p1 = str1 + i1 and p2 = str2 + i2; ch1, ch2 are
\* locals of the loop body
RECURSIVE StrcmpLoop(_, _, _, _)
StrcmpLoop(str1, str2, p1, p2) ==
    IF ByteAt(str1, p1) # 0 /\ ByteAt(str2, p2) # 0 THEN
        LET d1 == utf8_decode(Suffix(str1, p1), StaleChar)
            d2 == utf8_decode(Suffix(str2, p2), StaleChar)
        IN  IF d1.ret = 0 THEN StrcmpLoop(str1, str2, p1 + 1, p2)
            ELSE IF d2.ret = 0 THEN StrcmpLoop(str1, str2, p1, p2 + 1)
            ELSE IF d1.character.codepoint # d2.character.codepoint
                THEN CodepointDifference(d1.character.codepoint,
                                         d2.character.codepoint)
            ELSE StrcmpLoop(str1, str2, p1 + d1.ret, p2 + d2.ret)
    ELSE StrcmpEnd(str1, str2, p1, p2)

\* int utf8_strcmp(const char* str1, const char* str2)
utf8_strcmp(str1, str2) ==
    IF str1 = NULL /\ str2 = NULL THEN 0
    ELSE IF str1 = NULL THEN -1
    ELSE IF str2 = NULL THEN 1
    ELSE StrcmpLoop(str1, str2, 0, 0)

RECURSIVE StrlenLoop(_, _, _)

\* StrlenLoop that ends at the first sequence that does not decode
StrlenLoop_stopsAtFailure(str, p, count) ==
    IF ByteAt(str, p) # 0
    THEN IF utf8_decode(Suffix(str, p), StaleChar).ret = 0 THEN count
         ELSE StrlenLoop(str,
                         p + utf8_decode(Suffix(str, p), StaleChar).ret,
                         count + 1)
    ELSE count

\* the loop of utf8_strlen, with p the offset reached in str and the count
\* so far; ch is an uninitialised local
StrlenLoop(str, p, count) ==
    IF ByteAt(str, p) # 0
    THEN IF utf8_decode(Suffix(str, p), StaleChar).ret = 0
             THEN StrlenLoop(str, p + 1, count)
         ELSE StrlenLoop(str,
                         p + utf8_decode(Suffix(str, p), StaleChar).ret,
                         count + 1)
    ELSE count

\* size_t utf8_strlen(const char* str)
utf8_strlen(str) == IF str = NULL THEN 0 ELSE StrlenLoop(str, 0, 0)

----------------------------------------------------------------------------
(* lexer/keywords.c *)

keywords_table == <<
    [word |-> <<208, 176, 208, 186, 208, 190>>, type |-> "TOKEN_IF"],
    [word |-> <<208, 184, 208, 189, 208, 176, 209, 135, 208, 181>>,
        type |-> "TOKEN_ELSE"],
    [word |-> <<208, 180, 208, 190, 208, 186>>, type |-> "TOKEN_WHILE"],
    [word |-> <<208, 183, 208, 176>>, type |-> "TOKEN_FOR"],
    [word |-> <<209, 128, 208, 176, 208, 180, 208, 184>>, type |-> "TOKEN_DO"],
    [word |-> <<208, 191, 209, 128, 208, 181, 208, 186, 208, 184, 208, 189,
                208, 184>>, type |-> "TOKEN_BREAK"],
    [word |-> <<208, 178, 209, 128, 208, 176, 209, 130, 208, 184>>,
        type |-> "TOKEN_RETURN"],
    [word |-> <<208, 181, 208, 186, 209, 129, 209, 130, 208, 181, 209, 128,
                208, 189, 208, 190>>, type |-> "TOKEN_EXTERNAL"],
    [word |-> <<209, 130, 208, 176, 209, 135, 208, 189, 208, 190>>,
        type |-> "TOKEN_TRUE"],
    [word |-> <<208, 189, 208, 181, 209, 130, 208, 176, 209, 135, 208, 189,
                208, 190>>, type |-> "TOKEN_FALSE"] >>

KEYWORDS_COUNT == Len(keywords_table)

\* bool is_keyword(const char* str)
is_keyword(str) ==
    IF str = NULL THEN FALSE
    ELSE \E i \in 1..KEYWORDS_COUNT : utf8_strcmp(str, keywords_table[i].word) = 0

\* the loop of get_keyword_token from table index i (1-based)
RECURSIVE KeywordTokenFrom(_, _)
KeywordTokenFrom(str, i) ==
    IF i > KEYWORDS_COUNT THEN "TOKEN_KEYWORD_LAST"
    ELSE IF utf8_strcmp(str, keywords_table[i].word) = 0
        THEN keywords_table[i].type
    ELSE KeywordTokenFrom(str, i + 1)

\* TokenType get_keyword_token(const char* str)
get_keyword_token(str) ==
    IF str = NULL THEN "TOKEN_KEYWORD_LAST" ELSE KeywordTokenFrom(str, 1)

----------------------------------------------------------------------------
(* utils/error.h, utils/error.c                                            *)
(*                                                                         *)
(* error_list is read only by loops that count or free every entry in use, *)
(* so the entries in use are kept as a bag of [type, severity, message].   *)

MAX_ERRORS == 500

ERROR_WARNING == 0
ERROR_ERROR == 1
ERROR_FATAL == 2

\* the statics of error.c, as one record
ErrorState ==
    [error_count |-> error_count, error_list |-> error_list,
     error_log_file |-> error_log_file, released |-> released,
     notices |-> notices, exited |-> exited]

\* the statics when the program starts
ErrorStart ==
    [error_count |-> 0, error_list |-> EmptyBag, error_log_file |-> "NULL",
     released |-> EmptyBag, notices |-> 0, exited |-> FALSE]

\* fatal: the call reported with severity ERROR_FATAL
NoCall == [fn |-> "none", fatal |-> FALSE, ret |-> "none",
           printed |-> FALSE, cleaned |-> FALSE]

\* bool error_init_with_log(bool create_log_file); opened: fopen succeeded
error_init_with_log(d, create_log_file, opened) ==
    [d EXCEPT !.error_count = 0,
              !.error_list = EmptyBag,
              !.notices = 0,
              !.error_log_file =
                  IF create_log_file
                  THEN (IF opened THEN "open" ELSE "NULL")
                  ELSE d.error_log_file]

\* void error_cleanup(void)
error_cleanup(d) ==
    [d EXCEPT !.released = d.released (+) d.error_list,
              !.error_log_file = "NULL"]

\* error_count >= MAX_ERRORS
RegistryFull(d) == d.error_count >= MAX_ERRORS

\* message ? message : "<no message>"
MessageOrDefault(message) == IF message = "NULL" THEN "<no message>" ELSE message

\* bool error_report(type, severity, ..., message, ...): the statics
\* afterwards, the value returned ("exit": the call did not return), and
\* whether the entry was printed and error_cleanup was called
error_report(d, type, severity, message) ==
    IF RegistryFull(d) THEN
        [d |-> [d EXCEPT !.notices = d.notices + 1],
         ret |-> "false", printed |-> FALSE, cleaned |-> FALSE]
    ELSE LET entry == [type |-> type, severity |-> severity,
                       message |-> MessageOrDefault(message)]
             added == [d EXCEPT !.error_count = d.error_count + 1,
                                !.error_list = d.error_list (+) SetToBag({entry})]
         IN  IF severity = ERROR_FATAL
             THEN [d |-> [error_cleanup(added) EXCEPT !.exited = TRUE],
                   ret |-> "exit", printed |-> TRUE, cleaned |-> TRUE]
             ELSE [d |-> added, ret |-> "true", printed |-> TRUE,
                   cleaned |-> FALSE]

\* SeverityMatches with "at least as severe"
SeverityMatches_atLeast(entry, severity) == entry.severity >= severity

\* (int)error_list[i].severity == severity
SeverityMatches(entry, severity) == entry.severity = severity

\* the counting loop of error_get_count over the entries in use
RECURSIVE CountMatching(_, _, _)
CountMatching(list, entries, severity) ==
    IF entries = {} THEN 0
    ELSE LET e == CHOOSE x \in entries : TRUE
         IN  (IF SeverityMatches(e, severity) THEN CopiesIn(e, list) ELSE 0)
                 + CountMatching(list, entries \ {e}, severity)

\* int error_get_count(int severity)
error_get_count(d, severity) ==
    IF severity < 0 THEN d.error_count
    ELSE CountMatching(d.error_list, BagToSet(d.error_list), severity)

\* static bool check_null(void* ptr, const char* error_message, ...) of
\* parser/ast.c: the statics afterwards and the value returned
check_null(d, ptr_is_null, error_message) ==
    IF ptr_is_null
    THEN LET r == error_report(d, "ERROR_INTERNAL", ERROR_FATAL, error_message)
         IN  [r EXCEPT !.ret = IF r.ret = "exit" THEN "exit" ELSE "false"]
    ELSE [d |-> d, ret |-> "true", printed |-> FALSE, cleaned |-> FALSE]

----------------------------------------------------------------------------
(* lexer/lexer.h, lexer/lexer.c                                            *)
(*                                                                         *)
(* A LexerState is a record of its fields; source is the sequence of the   *)
(* source_length bytes read from the file and current, start are offsets   *)
(* from 0.  The field reports holds, in order, the error_report calls the  *)
(* operation under way has made: none of them is Fatal and no path of the  *)
(* lexer reads what error_report returns.  A function that changes the     *)
(* lexer and returns a value yields [lexer, ret].  malloc and realloc are  *)
(* taken to succeed.                                                       *)

EOF == -1

\* a char read as an int: char is signed in the build (gcc, x86)
CharToInt(b) == IF b >= 128 THEN b - 256 ELSE b

\* lexer->source[i]; source[source_length] is the NUL lexer_init stores, and
\* there is no byte of the source behind it: such a read has no value
SourceAt(lx, i) == IF i = lx.source_length THEN 0 ELSE lx.source[i + 1]

\* isdigit(c) of <ctype.h> in the C locale.  c outside EOF, 0..UCHAR_MAX is
\* undefined behaviour: the table of the C library answers for -128..255,
\* and beyond it the lookup finds whatever lies there
isdigit(c) ==
    IF c \in 48..57 THEN TRUE
    ELSE IF c \in -128..255 THEN FALSE
    ELSE ctype_outside

\* isxdigit(c) of <ctype.h>, likewise
isxdigit(c) ==
    IF c \in 48..57 \/ c \in 65..70 \/ c \in 97..102 THEN TRUE
    ELSE IF c \in -128..255 THEN FALSE
    ELSE ctype_outside

\* the value of a hexadecimal digit, for strtol(hex, NULL, 16)
HexDigitValue(c) ==
    IF c \in 48..57 THEN c - 48
    ELSE IF c \in 65..70 THEN c - 55
    ELSE c - 87

\* bool utf8_is_alphabetic(utf8_codepoint_t codepoint)
utf8_is_alphabetic(codepoint) ==
    \/ codepoint \in 65..90 \/ codepoint \in 97..122
    \/ codepoint \in 1024..1279
    \/ codepoint \in {1115, 1106, 1119, 1112}

\* bool utf8_is_digit(utf8_codepoint_t codepoint)
utf8_is_digit(codepoint) == codepoint >= 48 /\ codepoint <= 57

\* bool utf8_is_identifier_char(utf8_codepoint_t codepoint, bool is_start)
utf8_is_identifier_char(codepoint, is_start) ==
    IF codepoint = 95 THEN TRUE
    ELSE IF is_start /\ utf8_is_digit(codepoint) THEN FALSE
    ELSE IF utf8_is_alphabetic(codepoint) THEN TRUE
    ELSE IF ~is_start /\ utf8_is_digit(codepoint) THEN TRUE
    ELSE FALSE

\* static bool is_identifier_start(int32_t c)
is_identifier_start(c) ==
    IF c \in 97..122 \/ c \in 65..90 \/ c = 95 THEN TRUE
    ELSE IF c > 127 THEN utf8_is_identifier_char(c, TRUE)
    ELSE FALSE

\* is_identifier_part without the digits
is_identifier_part_noDigits(c) ==
    IF c \in 97..122 \/ c \in 65..90 \/ c = 95 THEN TRUE
    ELSE IF c > 127 THEN utf8_is_identifier_char(c, FALSE)
    ELSE FALSE

\* static bool is_identifier_part(int32_t c)
is_identifier_part(c) ==
    IF c \in 97..122 \/ c \in 65..90 \/ c \in 48..57 \/ c = 95 THEN TRUE
    ELSE IF c > 127 THEN utf8_is_identifier_char(c, FALSE)
    ELSE FALSE

\* static int determine_utf8_bytes(uint8_t first_byte)
determine_utf8_bytes(first_byte) ==
    IF AndHigh(first_byte, 7) = 0 THEN 1
    ELSE IF AndHigh(first_byte, 5) = 192 THEN 2
    ELSE IF AndHigh(first_byte, 4) = 224 THEN 3
    ELSE IF AndHigh(first_byte, 3) = 240 THEN 4
    ELSE 1

\* static int32_t peek_utf8_char(LexerState* lexer)
peek_utf8_char(lx) ==
    IF lx.current >= lx.source_length THEN EOF
    ELSE LET first_byte == SourceAt(lx, lx.current)
             num_bytes == determine_utf8_bytes(first_byte)
             b1 == AndLow(SourceAt(lx, lx.current + 1), 6)
             b2 == AndLow(SourceAt(lx, lx.current + 2), 6)
             b3 == AndLow(SourceAt(lx, lx.current + 3), 6)
         IN  IF lx.current + num_bytes > lx.source_length THEN EOF
             ELSE IF num_bytes = 1 THEN first_byte
             ELSE IF num_bytes = 2 THEN ShlOr(AndLow(first_byte, 5), 6, b1)
             ELSE IF num_bytes = 3
                 THEN ShlOr(ShlOr(AndLow(first_byte, 4), 6, b1), 6, b2)
             ELSE ShlOr(ShlOr(ShlOr(AndLow(first_byte, 3), 6, b1), 6, b2), 6, b3)

\* the end of advance: utf8_decode(utf8_char, &character) returned r
AdvanceDecoded(lx, first_byte, r) ==
    [lexer |-> lx,
     ret |-> IF r.ret = 0 THEN first_byte ELSE r.character.codepoint]

\* the loop of advance that reads the bytes after the first, from byte i,
\* and the decoding that follows it
RECURSIVE AdvanceContinuation(_, _, _, _, _)
AdvanceContinuation(lx, first_byte, bytes_to_read, i, utf8_char) ==
    IF i < bytes_to_read
    THEN IF lx.current >= lx.source_length
             THEN [lexer |-> lx, ret |-> first_byte]
         ELSE IF AndHigh(SourceAt(lx, lx.current), 6) # 128
             \* the byte is consumed, then current-- and column--
             THEN [lexer |-> lx, ret |-> first_byte]
         ELSE AdvanceContinuation(
                  [lx EXCEPT !.current = @ + 1, !.column = @ + 1],
                  first_byte, bytes_to_read, i + 1,
                  Append(utf8_char, SourceAt(lx, lx.current)))
    ELSE AdvanceDecoded(lx, first_byte, utf8_decode(utf8_char, StaleChar))

\* advance where a newline advances the line and leaves the column counting
advance_columnRuns(lx) ==
    IF lx.current >= lx.source_length THEN [lexer |-> lx, ret |-> 0]
    ELSE LET first_byte == SourceAt(lx, lx.current)
             l1 == [lx EXCEPT !.current = @ + 1,
                              !.previous_column = lx.column,
                              !.column = @ + 1]
         IN  IF first_byte = 10
                 THEN [lexer |-> [l1 EXCEPT !.line = @ + 1], ret |-> 10]
             ELSE IF AndHigh(first_byte, 7) = 0
                 THEN [lexer |-> l1, ret |-> first_byte]
             ELSE AdvanceContinuation(l1, first_byte,
                                      determine_utf8_bytes(first_byte), 1,
                                      <<first_byte>>)

\* static int32_t advance(LexerState* lexer)
advance(lx) ==
    IF lx.current >= lx.source_length THEN [lexer |-> lx, ret |-> 0]
    ELSE LET first_byte == SourceAt(lx, lx.current)
             l1 == [lx EXCEPT !.current = @ + 1,
                              !.previous_column = lx.column,
                              !.column = @ + 1]
         IN  IF first_byte = 10
                 THEN [lexer |-> [l1 EXCEPT !.line = @ + 1, !.column = 1],
                       ret |-> 10]
             ELSE IF AndHigh(first_byte, 7) = 0
                 THEN [lexer |-> l1, ret |-> first_byte]
             ELSE AdvanceContinuation(l1, first_byte,
                                      determine_utf8_bytes(first_byte), 1,
                                      <<first_byte>>)

\* static int32_t peek(LexerState* lexer)
peek(lx) ==
    IF lx.current >= lx.source_length THEN 0
    ELSE CharToInt(SourceAt(lx, lx.current))

\* static int32_t peek_next(LexerState* lexer)
peek_next(lx) ==
    IF lx.current + 1 >= lx.source_length THEN 0
    ELSE CharToInt(SourceAt(lx, lx.current + 1))

\* static bool match(LexerState* lexer, char expected)
match(lx, expected) ==
    IF lx.current >= lx.source_length THEN [lexer |-> lx, ret |-> FALSE]
    ELSE IF CharToInt(SourceAt(lx, lx.current)) # expected
        THEN [lexer |-> lx, ret |-> FALSE]
    ELSE [lexer |-> [lx EXCEPT !.current = @ + 1, !.column = @ + 1],
          ret |-> TRUE]

\* the call error_report(ERROR_LEXICAL, severity, ..., message, ...)
Report(lx, severity, message) ==
    [lx EXCEPT !.reports = Append(@, [type |-> "ERROR_LEXICAL",
                                      severity |-> severity,
                                      message |-> message])]

\* token.value after token.value.int_value = 0
ZeroValue == [member |-> "int_value", int |-> 0, string |-> NULL]

\* static Token make_token(LexerState* lexer, TokenType type); the lexeme
\* is the pointer source + start
make_token(lx, type) ==
    [type |-> type,
     lexeme |-> [base |-> "source", off |-> lx.start, text |-> ""],
     lexeme_length |-> lx.current - lx.start,
     line |-> lx.line,
     column |-> lx.column - (lx.current - lx.start),
     value |-> ZeroValue]

\* static Token error_token(LexerState* lexer, const char* message); base
\* tells a string literal from the array error_msg of the caller's frame,
\* which is gone when the token is returned
error_token(lx, base, message) ==
    [type |-> "TOKEN_ERROR",
     lexeme |-> [base |-> base, off |-> 0, text |-> message],
     lexeme_length |-> Len(message),
     line |-> lx.line,
     column |-> lx.column,
     value |-> ZeroValue]

\* a token returned with the lexer as it is then
Returned(lx, token) == [lexer |-> lx, ret |-> token]

\* make_token(lexer, type) with token.value set, returned
ReturnToken(lx, type, value) ==
    Returned(lx, [make_token(lx, type) EXCEPT !.value = value])

\* return error_token(lexer, message)
ReturnError(lx, base, message) == Returned(lx, error_token(lx, base, message))

\* error_report(ERROR_LEXICAL, ERROR_ERROR, ..., report, ...) followed by
\* return error_token(lexer, message)
ReportError(lx, report, base, message) ==
    ReturnError(Report(lx, ERROR_ERROR, report), base, message)

\* the loop of a single-line comment: up to the newline or the end
RECURSIVE SkipLineComment(_)
SkipLineComment(lx) ==
    IF peek(lx) # 10 /\ peek(lx) # 0
    THEN SkipLineComment(advance(lx).lexer)
    ELSE lx

\* the loop of a multi-line comment that looks for the closing */
RECURSIVE SkipBlockComment(_)
SkipBlockComment(lx) ==
    IF lx.current < lx.source_length
    THEN IF peek(lx) = 42 /\ peek_next(lx) = 47
             THEN advance(advance(lx).lexer).lexer
         ELSE SkipBlockComment(advance(lx).lexer)
    ELSE lx

\* after the loop of a multi-line comment
BlockCommentEnd(lx) ==
    IF lx.current >= lx.source_length
    THEN Report(lx, ERROR_WARNING, "Unterminated multi-line comment")
    ELSE lx

\* static void skip_whitespace(LexerState* lexer)
RECURSIVE skip_whitespace(_)
skip_whitespace(lx) ==
    IF lx.current < lx.source_length
    THEN IF peek(lx) \in {32, 9, 13, 10}
             THEN skip_whitespace(advance(lx).lexer)
         ELSE IF peek(lx) = 47 /\ peek_next(lx) = 47
             THEN skip_whitespace(SkipLineComment(lx))
         ELSE IF peek(lx) = 47 /\ peek_next(lx) = 42
             THEN skip_whitespace(
                      BlockCommentEnd(
                          SkipBlockComment(advance(advance(lx).lexer).lexer)))
         ELSE lx
    ELSE lx

\* the loop of scan_identifier
RECURSIVE ScanIdentifierLoop(_)
ScanIdentifierLoop(lx) ==
    IF is_identifier_part(peek_utf8_char(lx))
    THEN ScanIdentifierLoop(advance(lx).lexer)
    ELSE lx

\* token.value after token.value.string_value = str
StringValue(str) == [member |-> "string_value", int |-> 0, string |-> str]

\* token.value after token.value.int_value = n
IntValue(n) == [member |-> "int_value", int |-> n, string |-> NULL]

\* token.value after token.value.char_value = c
CharValue(c) == [member |-> "char_value", int |-> c, string |-> NULL]

\* scan_identifier once the string identifier is extracted
IdentifierToken(lx, identifier) ==
    IF is_keyword(identifier)
    THEN Returned(lx, make_token(lx, get_keyword_token(identifier)))
    ELSE ReturnToken(lx, "TOKEN_IDENTIFIER", StringValue(identifier))

\* scan_identifier after its loop
IdentifierEnd(lx) ==
    IdentifierToken(lx, CStringOf(SubSeq(lx.source, lx.start + 1, lx.current),
                                  1, lx.current - lx.start))

\* static Token scan_identifier(LexerState* lexer)
scan_identifier(lx) == IdentifierEnd(ScanIdentifierLoop(lx))

\* the lexer after n calls of advance(lexer), taken in two halves; at the
\* end of the source advance leaves the lexer as it is
RECURSIVE Advanced(_, _)
Advanced(lx, n) ==
    IF n = 0 \/ lx.current >= lx.source_length THEN lx
    ELSE IF n = 1 THEN advance(lx).lexer
    ELSE Advanced(Advanced(lx, n \div 2), n - n \div 2)

\* while (isdigit(peek(lexer))) advance(lexer);  the body runs once for each
\* of the digits in front of current, which advance steps over one by one
ScanDigits(lx) ==
    IF isdigit(peek(lx))
    THEN Advanced(lx, CHOOSE n \in 1..(lx.source_length - lx.current) :
                          /\ \A j \in 1..(n - 1) :
                                 isdigit(peek([lx EXCEPT !.current = @ + j]))
                          /\ ~isdigit(peek([lx EXCEPT !.current = @ + n])))
    ELSE lx

\* the value of the decimal digits among the bytes source[i .. to - 1], with
\* the value so far
RECURSIVE strtol10(_, _, _, _)
strtol10(lx, i, to, value) ==
    IF i < to /\ SourceAt(lx, i) \in 48..57
    THEN strtol10(lx, i + 1, to, value * 10 + (SourceAt(lx, i) - 48))
    ELSE value

\* LONG_MAX where long has 64 bits, 9223372036854775807: kept as its decimal
\* digits, since it is no integer of the model checker
LONG_MAX == <<9, 2, 2, 3, 3, 7, 2, 0, 3, 6, 8, 5, 4, 7, 7, 5, 8, 0, 7>>

\* strtol(number_str, NULL, 10) of the lexeme copied from the source: the
\* value of its leading digits, LONG_MAX when they denote more (the ERANGE
\* case)
strtol(lx) ==
    LET end == CHOOSE e \in lx.start..lx.current :
                   /\ \A k \in lx.start..(e - 1) : SourceAt(lx, k) \in 48..57
                   /\ e = lx.current \/ SourceAt(lx, e) \notin 48..57
        first == CHOOSE f \in lx.start..end :
                     /\ \A k \in lx.start..(f - 1) : SourceAt(lx, k) = 48
                     /\ f = end \/ SourceAt(lx, f) # 48
        above == \E k \in 1..Len(LONG_MAX) :
                     /\ SourceAt(lx, first + k - 1) - 48 > LONG_MAX[k]
                     /\ \A j \in 1..(k - 1) :
                            SourceAt(lx, first + j - 1) - 48 = LONG_MAX[j]
    IN  IF \/ end - first > Len(LONG_MAX)
           \/ end - first = Len(LONG_MAX) /\ above
        THEN LONG_MAX
        ELSE strtol10(lx, first, end, 0)

\* NumberFraction with no diagnostic
NumberFraction_noWarning(lx) ==
    IF peek(lx) = 46 /\ isdigit(peek_next(lx))
    THEN ScanDigits(advance(lx).lexer)
    ELSE lx

\* scan_number after the digits: the decimal point and the digits after it
NumberFraction(lx) ==
    IF peek(lx) = 46 /\ isdigit(peek_next(lx))
    THEN Report(ScanDigits(advance(lx).lexer), ERROR_WARNING,
                "Floating-point numbers are not fully supported yet")
    ELSE lx

\* scan_number once the lexeme is read: the value and the token
NumberToken(lx) ==
    IF lx.current - lx.start >= 64
    THEN ReturnError(lx, "literal", "Number too large")
    ELSE ReturnToken(lx, "TOKEN_NUMBER",
                     IntValue(strtol(lx)))

\* static Token scan_number(LexerState* lexer)
scan_number(lx) == NumberToken(NumberFraction(ScanDigits(lx)))

\* the loops that read the n hexadecimal digits of \uXXXX and \xXX, from
\* digit i with the value so far: ok is false when a digit is missing
RECURSIVE HexEscape(_, _, _, _)
HexEscape(lx, n, i, value) ==
    IF i < n
    THEN IF lx.current >= lx.source_length \/ ~isxdigit(peek(lx))
             THEN [lexer |-> lx, ok |-> FALSE, value |-> value]
         ELSE HexEscape(advance(lx).lexer, n, i + 1,
                        value * 16 + HexDigitValue(peek(lx)))
    ELSE [lexer |-> lx, ok |-> TRUE, value |-> value]

\* the bytes utf8_encode wrote, when it returned e
EncodedBytes(e) == SubSeq(e.character.bytes, 1, e.ret)

\* the buffer of scan_string after it stores the character c
StoreCharacter(buffer, c) ==
    IF c < 128 THEN Append(buffer, ToByte(c))
    ELSE buffer \o EncodedBytes(utf8_encode(c, StaleChar))

\* the message snprintf builds in error_msg; ? stands for the character
InvalidEscapeMessage == "Invalid escape sequence '\\?'"

\* the characters of the one-letter escapes of scan_string
StringEscapes ==
    (34 :> 34) @@ (92 :> 92) @@ (114 :> 13) @@ (116 :> 9) @@ (48 :> 0)
        @@ (110 :> 10) @@ (98 :> 8) @@ (102 :> 12) @@ (118 :> 11) @@ (97 :> 7)

RECURSIVE ScanStringLoop(_, _)

\* scan_string after the digits of \uXXXX (letter 117) or \xXX were read
StringHexEscape(h, letter, buffer) ==
    IF h.ok THEN ScanStringLoop(h.lexer, StoreCharacter(buffer, h.value))
    ELSE IF letter = 117
        THEN ReportError(h.lexer, "Invalid Unicode escape sequence",
                         "literal", "Invalid Unicode escape")
    ELSE ReportError(h.lexer, "Invalid hex escape sequence",
                     "literal", "Invalid hex escape")

\* scan_string after a backslash: n is what advance returned for the
\* character that follows it
StringEscape(n, buffer) ==
    IF n.ret \in DOMAIN StringEscapes
        THEN ScanStringLoop(n.lexer, StoreCharacter(buffer, StringEscapes[n.ret]))
    ELSE IF n.ret \in {117, 120}
        THEN StringHexEscape(
                 HexEscape(n.lexer, IF n.ret = 117 THEN 4 ELSE 2, 0, 0),
                 n.ret, buffer)
    ELSE ReportError(n.lexer, InvalidEscapeMessage,
                     "expired", InvalidEscapeMessage)

\* the body of the loop of scan_string: a is what advance returned
StringCharacter(a, buffer) ==
    IF a.ret = 92 THEN StringEscape(advance(a.lexer), buffer)
    ELSE ScanStringLoop(a.lexer, StoreCharacter(buffer, a.ret))

\* ScanStringLoop with no diagnostic for the literal that is not closed
ScanStringLoop_noReport(lx, buffer) ==
    IF peek(lx) # 34 /\ lx.current < lx.source_length
        THEN StringCharacter(advance(lx), buffer)
    ELSE IF lx.current >= lx.source_length \/ peek(lx) # 34
        THEN ReturnError(lx, "literal", "Unterminated string")
    ELSE ReturnToken(advance(lx).lexer, "TOKEN_STRING", StringValue(buffer))

\* the loop of scan_string and what follows it
ScanStringLoop(lx, buffer) ==
    IF peek(lx) # 34 /\ lx.current < lx.source_length
        THEN StringCharacter(advance(lx), buffer)
    ELSE IF lx.current >= lx.source_length \/ peek(lx) # 34
        THEN ReportError(lx, "Unterminated string literal",
                         "literal", "Unterminated string")
    ELSE ReturnToken(advance(lx).lexer, "TOKEN_STRING", StringValue(buffer))

\* static Token scan_string(LexerState* lexer)
scan_string(lx) == ScanStringLoop(lx, <<>>)

\* x & 0x80 and x & 0xC0 of an int32 that is not negative
AndBit7(x) == ((x \div 128) % 2) * 128
AndBits76(x) == ((x \div 64) % 4) * 64

\* the characters of the one-letter escapes of scan_character_literal
CharacterEscapes ==
    (39 :> 39) @@ (92 :> 92) @@ (110 :> 10) @@ (114 :> 13) @@ (116 :> 9)
        @@ (48 :> 0)

\* the end of scan_character_literal: the closing quote and the token
CharacterClose(lx, c) ==
    IF peek(lx) # 39
    THEN ReportError(lx, "Unterminated character literal",
                     "literal", "Unterminated character literal")
    ELSE ReturnToken(advance(lx).lexer, "TOKEN_CHAR_LITERAL", CharValue(c))

\* scan_character_literal once utf8_decode(utf8_char, &character) returned r
CharacterDecoded(lx, r) ==
    IF r.ret = 0
    THEN ReportError(lx, "Invalid UTF-8 character",
                     "literal", "Invalid UTF-8 character")
    ELSE CharacterClose(lx, r.character.codepoint)

RECURSIVE CharacterContinuation(_, _, _, _)

\* the body of the loop below: a is what advance returned for next_byte
CharacterContinuationByte(a, bytes_to_read, i, utf8_char) ==
    IF AndBits76(a.ret) # 128
    THEN ReportError(a.lexer, "Invalid UTF-8 continuation byte",
                     "literal", "Invalid UTF-8 continuation byte")
    ELSE CharacterContinuation(a.lexer, bytes_to_read, i + 1,
                               Append(utf8_char, ToByte(a.ret)))

\* the loop of scan_character_literal that reads the bytes after
\* first_byte, from byte i, and the decoding that follows it
CharacterContinuation(lx, bytes_to_read, i, utf8_char) ==
    IF i < bytes_to_read
    THEN IF lx.current >= lx.source_length
             THEN ReportError(lx, "Incomplete UTF-8 character",
                              "literal", "Incomplete UTF-8 character")
         ELSE CharacterContinuationByte(advance(lx), bytes_to_read, i,
                                        utf8_char)
    ELSE CharacterDecoded(lx, utf8_decode(utf8_char, StaleChar))

\* scan_character_literal after the digits of \uXXXX were read
CharacterHexEscape(h) ==
    IF h.ok THEN CharacterClose(h.lexer, h.value)
    ELSE ReportError(h.lexer, "Invalid Unicode escape sequence",
                     "literal", "Invalid Unicode escape")

\* scan_character_literal after the backslash is consumed
CharacterEscape(lx) ==
    IF peek(lx) \in DOMAIN CharacterEscapes
        THEN CharacterClose(advance(lx).lexer, CharacterEscapes[peek(lx)])
    ELSE IF peek(lx) = 117
        THEN CharacterHexEscape(HexEscape(advance(lx).lexer, 4, 0, 0))
    ELSE ReportError(lx, InvalidEscapeMessage, "expired", InvalidEscapeMessage)

\* scan_character_literal for a character that is no escape: a is what
\* advance returned for it
CharacterPlain(a) ==
    IF AndBit7(a.ret) # 0
    THEN CharacterContinuation(a.lexer, determine_utf8_bytes(ToByte(a.ret)),
                               1, <<ToByte(a.ret)>>)
    ELSE CharacterClose(a.lexer, a.ret)

\* static Token scan_character_literal(LexerState* lexer)
scan_character_literal(lx) ==
    IF peek(lx) = 92 THEN CharacterEscape(advance(lx).lexer)
    ELSE CharacterPlain(advance(lx))

\* the tokens of one character of scan_token
SingleCharacterTokens ==
    (40 :> "TOKEN_LEFT_PAREN") @@ (41 :> "TOKEN_RIGHT_PAREN")
        @@ (91 :> "TOKEN_LEFT_BRACKET") @@ (93 :> "TOKEN_RIGHT_BRACKET")
        @@ (58 :> "TOKEN_COLON") @@ (59 :> "TOKEN_SEMICOLON")
        @@ (44 :> "TOKEN_COMMA") @@ (46 :> "TOKEN_DOT")
        @@ (43 :> "TOKEN_PLUS") @@ (45 :> "TOKEN_MINUS")
        @@ (42 :> "TOKEN_STAR") @@ (47 :> "TOKEN_SLASH")
        @@ (37 :> "TOKEN_PERCENT") @@ (94 :> "TOKEN_CARET")
        @@ (126 :> "TOKEN_TILDE")

\* the tokens of one or two characters of scan_token: the character
\* matched second, the token with it and the token without it
DoubleCharacterTokens ==
    (33 :> <<61, "TOKEN_NOT_EQUALS", "TOKEN_NOT">>)
        @@ (61 :> <<61, "TOKEN_DOUBLE_EQUALS", "TOKEN_EQUALS">>)
        @@ (60 :> <<61, "TOKEN_LESS_EQUALS", "TOKEN_LESS">>)
        @@ (62 :> <<61, "TOKEN_GREATER_EQUALS", "TOKEN_GREATER">>)
        @@ (38 :> <<38, "TOKEN_DOUBLE_AND", "TOKEN_AND">>)
        @@ (124 :> <<124, "TOKEN_DOUBLE_OR", "TOKEN_OR">>)

\* make_token(lexer, match(lexer, expected) ? both : one): m is what match
\* returned
MatchedToken(m, both, one) ==
    Returned(m.lexer, make_token(m.lexer, IF m.ret THEN both ELSE one))

\* scan_token after c = advance(lexer): a is what advance returned
ScanTokenFrom(a) ==
    IF is_identifier_start(a.ret) THEN scan_identifier(a.lexer)
    ELSE IF isdigit(a.ret) THEN scan_number(a.lexer)
    ELSE IF a.ret \in DOMAIN SingleCharacterTokens
        THEN Returned(a.lexer, make_token(a.lexer, SingleCharacterTokens[a.ret]))
    ELSE IF a.ret \in DOMAIN DoubleCharacterTokens
        THEN MatchedToken(match(a.lexer, DoubleCharacterTokens[a.ret][1]),
                          DoubleCharacterTokens[a.ret][2],
                          DoubleCharacterTokens[a.ret][3])
    ELSE IF a.ret = 34 THEN scan_string(a.lexer)
    ELSE IF a.ret = 39 THEN scan_character_literal(a.lexer)
    ELSE ReturnError(a.lexer, "literal", "Unexpected character")

\* scan_token that reads the first character and leaves it in the source
scan_token_peeksFirst(lx) ==
    ScanTokenFrom([lexer |-> lx, ret |-> advance(lx).ret])

\* static Token scan_token(LexerState* lexer)
scan_token(lx) == ScanTokenFrom(advance(lx))

\* a Token that was never assigned
NoToken ==
    [type |-> "indeterminate",
     lexeme |-> [base |-> "indeterminate", off |-> 0, text |-> ""],
     lexeme_length |-> 0, line |-> 0, column |-> 0, value |-> ZeroValue]

\* LexerState* lexer_init(FILE* source, ...), for a file that is read whole:
\* the state the lexer starts in
lexer_init(source) ==
    [source |-> source, source_length |-> Len(source),
     current |-> 0, start |-> 0, line |-> 1, column |-> 1,
     previous_column |-> 1, has_next_token |-> FALSE,
     current_token |-> NoToken, next_token |-> NoToken, reports |-> <<>>]

\* lexer->current_token = token; return token;
ScannedToken(s) ==
    Returned([s.lexer EXCEPT !.current_token = s.ret], s.ret)

\* lexer_next_token after skip_whitespace(lexer)
NextTokenStart(lx) ==
    IF lx.current >= lx.source_length
    THEN Returned([lx EXCEPT !.start = lx.current],
                  make_token([lx EXCEPT !.start = lx.current], "TOKEN_EOF"))
    ELSE ScannedToken(scan_token([lx EXCEPT !.start = lx.current]))

\* Token lexer_next_token(LexerState* lexer)
lexer_next_token(lx) ==
    IF lx.has_next_token
    THEN Returned([lx EXCEPT !.has_next_token = FALSE], lx.next_token)
    ELSE NextTokenStart(skip_whitespace(lx))

\* PeekedToken that leaves start where the token peeked at begins
PeekedToken_keepsStart(lx, n) ==
    Returned([n.lexer EXCEPT !.next_token = n.ret,
                             !.has_next_token = TRUE,
                             !.current = lx.current,
                             !.line = lx.line,
                             !.column = lx.column,
                             !.previous_column = lx.previous_column],
             n.ret)

\* lexer_peek_token once lexer_next_token(lexer) returned n: the token is
\* cached and the position saved on entry is restored
PeekedToken(lx, n) ==
    Returned([n.lexer EXCEPT !.next_token = n.ret,
                             !.has_next_token = TRUE,
                             !.current = lx.current,
                             !.start = lx.start,
                             !.line = lx.line,
                             !.column = lx.column,
                             !.previous_column = lx.previous_column],
             n.ret)

\* Token lexer_peek_token(LexerState* lexer)
lexer_peek_token(lx) ==
    IF lx.has_next_token THEN Returned(lx, lx.next_token)
    ELSE PeekedToken(lx, lexer_next_token(lx))

\* the do-while loop of lexer_print_all_tokens: lexer_next_token until it
\* returned an Error or the Eof token
RECURSIVE PrintTokens(_)
PrintTokens(n) ==
    IF n.ret.type \in {"TOKEN_ERROR", "TOKEN_EOF"} THEN n
    ELSE PrintTokens(lexer_next_token(n.lexer))

\* void lexer_print_all_tokens(LexerState* lexer): the position is saved,
\* reset to the start of the source, and restored after the loop; ret is the
\* last token the loop printed
lexer_print_all_tokens(lx) ==
    LET n == PrintTokens(lexer_next_token(
                 [lx EXCEPT !.current = 0, !.start = 0, !.line = 1,
                            !.column = 1, !.previous_column = 1,
                            !.has_next_token = FALSE]))
    IN  Returned([n.lexer EXCEPT !.current = lx.current,
                                 !.start = lx.start,
                                 !.line = lx.line,
                                 !.column = lx.column,
                                 !.previous_column = lx.previous_column,
                                 !.has_next_token = lx.has_next_token],
                 n.ret)

\* the statics of error.c after the error_report calls reports[i ..]
RECURSIVE ApplyReports(_, _, _)
ApplyReports(d, reports, i) ==
    IF i > Len(reports) THEN d
    ELSE ApplyReports(error_report(d, reports[i].type, reports[i].severity,
                                   reports[i].message).d,
                      reports, i + 1)

----------------------------------------------------------------------------
(* parser/ast.c.  heap is the sequence of the blocks malloc returned, a    *)
(* pointer is the index of its block and NullPtr is NULL.  A block keeps   *)
(* what was stored in it and how often free was called on it.  No          *)
(* allocation fails, so no check_null of a constructor reports.            *)

NullPtr == 0

\* a pointer returned with the heap as it is then
Pointed(h, p) == [heap |-> h, ret |-> p]

\* malloc(...) followed by the stores that fill the block
malloc(h, kind, data) ==
    Pointed(Append(h, [kind |-> kind, frees |-> 0, data |-> data]), Len(h) + 1)

\* free(p)
free(h, p) == IF p = NullPtr THEN h ELSE [h EXCEPT ![p].frees = @ + 1]

\* static char* string_duplicate(const char* str)
string_duplicate(h, str) ==
    IF str = NULL THEN Pointed(h, NullPtr) ELSE malloc(h, "string", str)

\* a TypeInfo: the members of the union that its category does not use are
\* never read and are kept at zero
TypeInfo(category, element_type, size, return_type, param_types, param_count) ==
    [category |-> category, element_type |-> element_type, size |-> size,
     return_type |-> return_type, param_types |-> param_types,
     param_count |-> param_count]

\* TypeInfo* type_create_void(void), type_create_bool, type_create_char,
\* type_create_int
type_create(h, category) ==
    malloc(h, "TypeInfo", TypeInfo(category, NullPtr, 0, NullPtr, NullPtr, 0))

\* TypeInfo* type_create_array(TypeInfo* element_type, int size)
type_create_array(h, element_type, size) ==
    IF element_type = NullPtr THEN Pointed(h, NullPtr)
    ELSE malloc(h, "TypeInfo",
                TypeInfo("TYPE_ARRAY", element_type, size, NullPtr, NullPtr, 0))

\* TypeInfo* type_create_function(TypeInfo* return_type,
\*                                TypeInfo** param_types, int param_count):
\* the record, then the array the parameter types are copied into
type_create_function(h, return_type, param_types, param_count) ==
    IF return_type = NullPtr THEN Pointed(h, NullPtr)
    ELSE IF param_count > 0 /\ param_types # NullPtr
        THEN Pointed(
                 malloc(malloc(h, "TypeInfo",
                               TypeInfo("TYPE_FUNCTION", NullPtr, 0,
                                        return_type, Len(h) + 2, param_count)).heap,
                        "array", SubSeq(h[param_types].data, 1, param_count)).heap,
                 Len(h) + 1)
    ELSE malloc(h, "TypeInfo",
                TypeInfo("TYPE_FUNCTION", NullPtr, 0, return_type, NullPtr, 0))

RECURSIVE type_free(_, _)

\* the loop of type_free over the parameter types, from parameter i
RECURSIVE TypeFreeParams(_, _, _)
TypeFreeParams(h, type, i) ==
    IF After(h, i <= h[type].data.param_count)
    THEN TypeFreeParams(type_free(h, h[h[type].data.param_types].data[i]),
                        type, i + 1)
    ELSE h

\* void type_free(TypeInfo* type)
type_free(h, type) ==
    IF type = NullPtr THEN h
    ELSE IF h[type].data.category = "TYPE_ARRAY"
        THEN free(type_free(h, h[type].data.element_type), type)
    ELSE IF h[type].data.category = "TYPE_FUNCTION"
        THEN free(free(TypeFreeParams(type_free(h, h[type].data.return_type),
                                      type, 1),
                       h[type].data.param_types),
                  type)
    ELSE free(h, type)

\* the member of the node that the constructor of a variant copies with
\* string_duplicate
DuplicatedString ==
    [AST_FUNCTION_DECL |-> "name", AST_VAR_DECL |-> "name",
     AST_ARRAY_DECL |-> "name", AST_LITERAL_STRING |-> "value",
     AST_IDENTIFIER |-> "name"]

\* the array of children a variant has and the member that counts it
ChildArray ==
    [AST_PROGRAM |-> <<"declarations", "declaration_count">>,
     AST_FUNCTION_DECL |-> <<"parameters", "parameter_count">>,
     AST_ARRAY_DECL |-> <<"initializers", "initializer_count">>,
     AST_BLOCK |-> <<"statements", "statement_count">>,
     AST_CALL_EXPR |-> <<"arguments", "argument_count">>]

\* node->as.member = r.ret, for the node p
StoreMember(p, member, r) ==
    Pointed([r.heap EXCEPT ![p].data.as[member] = r.ret], p)

\* the constructors that own a string: m is the node allocated, whose
\* member still holds the string passed
CreateString(m, type) ==
    IF type \in DOMAIN DuplicatedString
    THEN StoreMember(m.ret, DuplicatedString[type],
                     string_duplicate(
                         m.heap, m.heap[m.ret].data.as[DuplicatedString[type]]))
    ELSE m

\* the constructors that take an array of children: the array is copied
\* into one the node owns when count > 0 && array, else the node has none
CreateArray(m, type) ==
    IF type \in DOMAIN ChildArray
    THEN IF /\ m.heap[m.ret].data.as[ChildArray[type][2]] > 0
            /\ m.heap[m.ret].data.as[ChildArray[type][1]] # NullPtr
         THEN StoreMember(
                  m.ret, ChildArray[type][1],
                  malloc(m.heap, "array",
                         SubSeq(m.heap[m.heap[m.ret].data.as[ChildArray[type][1]]].data,
                                1, m.heap[m.ret].data.as[ChildArray[type][2]])))
         ELSE Pointed([m.heap EXCEPT
                          ![m.ret].data.as[ChildArray[type][1]] = NullPtr,
                          ![m.ret].data.as[ChildArray[type][2]] = 0],
                      m.ret)
    ELSE m

\* AstNode* ast_create_program(...) ... AstNode* ast_create_type(...): the
\* node with type_info NULL and the members of its variant, as, stored as
\* they are passed, then the string and the array that the node owns
ast_create(h, type, location, as) ==
    CreateArray(
        CreateString(
            malloc(h, "AstNode", [type |-> type, location |-> location,
                                  type_info |-> NullPtr, as |-> as]),
            type),
        type)

\* what the switch of ast_free does for each variant, in order: free of a
\* member, ast_free of a child, ast_free of each element of an array,
\* type_free of a member.  The variants not listed take the default case
FreeSteps ==
    [AST_PROGRAM |-> <<<<"ast_free_each", "declarations">>,
                       <<"free", "declarations">>>>,
     AST_FUNCTION_DECL |-> <<<<"free", "name">>,
                             <<"ast_free_each", "parameters">>,
                             <<"free", "parameters">>,
                             <<"ast_free", "body">>,
                             <<"type_free", "return_type">>>>,
     AST_VAR_DECL |-> <<<<"free", "name">>, <<"ast_free", "initializer">>,
                        <<"type_free", "var_type">>>>,
     AST_ARRAY_DECL |-> <<<<"free", "name">>,
                          <<"ast_free_each", "initializers">>,
                          <<"free", "initializers">>,
                          <<"type_free", "element_type">>>>,
     AST_BLOCK |-> <<<<"ast_free_each", "statements">>,
                     <<"free", "statements">>>>,
     AST_IF_STMT |-> <<<<"ast_free", "condition">>,
                       <<"ast_free", "then_branch">>,
                       <<"ast_free", "else_branch">>>>,
     AST_WHILE_STMT |-> <<<<"ast_free", "condition">>, <<"ast_free", "body">>>>,
     AST_DO_WHILE_STMT |-> <<<<"ast_free", "condition">>,
                             <<"ast_free", "body">>>>,
     AST_FOR_STMT |-> <<<<"ast_free", "initializer">>,
                        <<"ast_free", "condition">>,
                        <<"ast_free", "increment">>, <<"ast_free", "body">>>>,
     AST_RETURN_STMT |-> <<<<"ast_free", "value">>>>,
     AST_EXPR_STMT |-> <<<<"ast_free", "expression">>>>,
     AST_BINARY_EXPR |-> <<<<"ast_free", "left">>, <<"ast_free", "right">>>>,
     AST_UNARY_EXPR |-> <<<<"ast_free", "operand">>>>,
     AST_LITERAL_STRING |-> <<<<"free", "value">>>>,
     AST_IDENTIFIER |-> <<<<"free", "name">>>>,
     AST_ARRAY_ACCESS |-> <<<<"ast_free", "array">>, <<"ast_free", "index">>>>,
     AST_CALL_EXPR |-> <<<<"ast_free", "callee">>,
                         <<"ast_free_each", "arguments">>,
                         <<"free", "arguments">>>>,
     AST_ASSIGNMENT |-> <<<<"ast_free", "target">>, <<"ast_free", "value">>>>,
     AST_TYPE |-> <<<<"type_free", "type_data">>>>]

\* the steps of a variant in a table of the switch, none in the default case
StepsOf(table, type) == IF type \in DOMAIN table THEN table[type] ELSE <<>>

RECURSIVE ast_free(_, _)

\* for (i = 0; i < count; i++) ast_free(array[i]), from element i
RECURSIVE FreeEach(_, _, _, _)
FreeEach(h, array, count, i) ==
    IF After(h, i <= count)
    THEN FreeEach(ast_free(h, h[array].data[i]), array, count, i + 1)
    ELSE h

\* one step of the switch of ast_free on the node
FreeStep(h, node, step) ==
    IF step[1] = "free" THEN free(h, h[node].data.as[step[2]])
    ELSE IF step[1] = "ast_free" THEN ast_free(h, h[node].data.as[step[2]])
    ELSE IF step[1] = "type_free" THEN type_free(h, h[node].data.as[step[2]])
    ELSE FreeEach(h, h[node].data.as[step[2]],
                  h[node].data.as[ChildArray[h[node].data.type][2]], 1)

\* the switch of ast_free from step i
RECURSIVE FreeSwitch(_, _, _, _)
FreeSwitch(h, node, steps, i) ==
    IF After(h, i <= Len(steps))
    THEN FreeSwitch(FreeStep(h, node, steps[i]), node, steps, i + 1)
    ELSE h

\* void ast_free(AstNode* node): the switch, type_free(node->type_info)
\* (which does nothing for NULL) and free(node)
ast_free(h, node) ==
    IF node = NullPtr THEN h
    ELSE free(type_free(FreeSwitch(h, node,
                                   StepsOf(FreeSteps, h[node].data.type), 1),
                        h[node].data.type_info),
              node)

\* the member of AstVisitor called for each variant
VisitorSlot ==
    [AST_PROGRAM |-> "visit_program",
     AST_FUNCTION_DECL |-> "visit_function_decl",
     AST_VAR_DECL |-> "visit_var_decl", AST_ARRAY_DECL |-> "visit_array_decl",
     AST_BLOCK |-> "visit_block", AST_IF_STMT |-> "visit_if_stmt",
     AST_WHILE_STMT |-> "visit_while_stmt", AST_FOR_STMT |-> "visit_for_stmt",
     AST_DO_WHILE_STMT |-> "visit_do_while_stmt",
     AST_RETURN_STMT |-> "visit_return_stmt",
     AST_BREAK_STMT |-> "visit_break_stmt",
     AST_EXPR_STMT |-> "visit_expr_stmt",
     AST_BINARY_EXPR |-> "visit_binary_expr",
     AST_UNARY_EXPR |-> "visit_unary_expr",
     AST_LITERAL_INT |-> "visit_literal_int",
     AST_LITERAL_CHAR |-> "visit_literal_char",
     AST_LITERAL_STRING |-> "visit_literal_string",
     AST_LITERAL_BOOL |-> "visit_literal_bool",
     AST_IDENTIFIER |-> "visit_identifier",
     AST_ARRAY_ACCESS |-> "visit_array_access",
     AST_CALL_EXPR |-> "visit_call_expr",
     AST_ASSIGNMENT |-> "visit_assignment", AST_TYPE |-> "visit_type"]

\* the children the switch of ast_accept passes to ast_accept for each
\* variant, in order: a child, or each element of an array
AcceptSteps ==
    [AST_PROGRAM |-> <<<<"each", "declarations">>>>,
     AST_FUNCTION_DECL |-> <<<<"each", "parameters">>, <<"child", "body">>>>,
     AST_VAR_DECL |-> <<<<"child", "initializer">>>>,
     AST_ARRAY_DECL |-> <<<<"each", "initializers">>>>,
     AST_BLOCK |-> <<<<"each", "statements">>>>,
     AST_IF_STMT |-> <<<<"child", "condition">>, <<"child", "then_branch">>,
                       <<"child", "else_branch">>>>,
     AST_WHILE_STMT |-> <<<<"child", "condition">>, <<"child", "body">>>>,
     AST_DO_WHILE_STMT |-> <<<<"child", "body">>, <<"child", "condition">>>>,
     AST_FOR_STMT |-> <<<<"child", "initializer">>, <<"child", "condition">>,
                        <<"child", "increment">>, <<"child", "body">>>>,
     AST_RETURN_STMT |-> <<<<"child", "value">>>>,
     AST_EXPR_STMT |-> <<<<"child", "expression">>>>,
     AST_BINARY_EXPR |-> <<<<"child", "left">>, <<"child", "right">>>>,
     AST_UNARY_EXPR |-> <<<<"child", "operand">>>>,
     AST_ARRAY_ACCESS |-> <<<<"child", "array">>, <<"child", "index">>>>,
     AST_CALL_EXPR |-> <<<<"child", "callee">>, <<"each", "arguments">>>>,
     AST_ASSIGNMENT |-> <<<<"child", "target">>, <<"child", "value">>>>]

\* what ast_accept returns, with the nodes the callbacks were called for
Accepted(ret, visits) == [ret |-> ret, visits |-> visits]

RECURSIVE ast_accept(_, _, _, _)
RECURSIVE AcceptSwitch(_, _, _, _, _, _)

\* for (i = 0; i < count; i++) if (!ast_accept(array[i], visitor)) return
\* false; from element i, followed by the steps after step k
RECURSIVE AcceptEach(_, _, _, _, _, _, _, _)

\* the switch goes on whatever the ast_accept of a child returned
AcceptNext_goOn(h, node, visitor, steps, k, array, i, r) ==
    IF array # NullPtr
           /\ i <= h[node].data.as[ChildArray[h[node].data.type][2]]
        THEN AcceptEach(h, node, visitor, steps, k, array, i, r.visits)
    ELSE AcceptSwitch(h, node, visitor, steps, k + 1, r.visits)

\* after an ast_accept of the switch returned r: return false, or go on
\* with the rest of the loop of step k and the steps after it
AcceptNext(h, node, visitor, steps, k, array, i, r) ==
    IF ~r.ret THEN r
    ELSE IF array # NullPtr
             /\ i <= h[node].data.as[ChildArray[h[node].data.type][2]]
        THEN AcceptEach(h, node, visitor, steps, k, array, i, r.visits)
    ELSE AcceptSwitch(h, node, visitor, steps, k + 1, r.visits)

AcceptEach(h, node, visitor, steps, k, array, i, visits) ==
    AcceptNext(h, node, visitor, steps, k, array, i + 1,
               ast_accept(h, h[array].data[i], visitor, visits))

\* the switch of ast_accept after the callback, from step k
AcceptSwitch(h, node, visitor, steps, k, visits) ==
    IF k > Len(steps) THEN Accepted(TRUE, visits)
    ELSE IF steps[k][1] = "child"
        THEN AcceptNext(h, node, visitor, steps, k, NullPtr, 0,
                        ast_accept(h, h[node].data.as[steps[k][2]], visitor,
                                   visits))
    ELSE AcceptNext(h, node, visitor, steps, k, h[node].data.as[steps[k][2]],
                    1, Accepted(TRUE, visits))

\* a traversal that does not descend below a node without callback
ast_accept_skipChildren(h, node, visitor, visits) ==
    IF node = NullPtr THEN Accepted(TRUE, visits)
    ELSE IF h[node].data.type \notin DOMAIN VisitorSlot
        THEN Accepted(FALSE, visits)
    ELSE IF VisitorSlot[h[node].data.type] \in visitor.slots
        THEN IF node \in visitor.stop
                 THEN Accepted(FALSE, Append(visits, node))
             ELSE AcceptSwitch(h, node, visitor,
                               StepsOf(AcceptSteps, h[node].data.type), 1,
                               Append(visits, node))
    ELSE Accepted(TRUE, visits)

\* bool ast_accept(AstNode* node, AstVisitor* visitor), for a visitor that
\* is not NULL: visitor.slots are the members that hold a callback, and
\* the callback returns false for the nodes of visitor.stop
ast_accept(h, node, visitor, visits) ==
    IF node = NullPtr THEN Accepted(TRUE, visits)
    ELSE IF h[node].data.type \notin DOMAIN VisitorSlot
        THEN Accepted(FALSE, visits)
    ELSE IF VisitorSlot[h[node].data.type] \in visitor.slots
        THEN IF node \in visitor.stop
                 THEN Accepted(FALSE, Append(visits, node))
             ELSE AcceptSwitch(h, node, visitor,
                               StepsOf(AcceptSteps, h[node].data.type), 1,
                               Append(visits, node))
    ELSE AcceptSwitch(h, node, visitor,
                      StepsOf(AcceptSteps, h[node].data.type), 1, visits)

RECURSIVE ast_clone(_, _)
RECURSIVE clone_type(_, _)

RECURSIVE CloneNodes(_, _, _, _, _)

\* the body of the loop of clone_node_array: c is what ast_clone returned
\* for element i.  On a NULL the elements cloned so far and the array are
\* released
CloneNodesStore(c, nodes, count, cloned, i) ==
    IF c.ret = NullPtr
    THEN Pointed(free(FreeEach(c.heap, cloned, i - 1, 1), cloned), NullPtr)
    ELSE CloneNodes([c.heap EXCEPT ![cloned].data = Append(@, c.ret)],
                    nodes, count, cloned, i + 1)

\* the loop of clone_node_array from element i
CloneNodes(h, nodes, count, cloned, i) ==
    IF i > count THEN Pointed(h, cloned)
    ELSE CloneNodesStore(ast_clone(h, h[nodes].data[i]), nodes, count,
                         cloned, i)

\* static AstNode** clone_node_array(AstNode** nodes, int count): the array
\* holds the elements stored so far, the others are not initialized
clone_node_array(h, nodes, count) ==
    IF nodes = NullPtr \/ count <= 0 THEN Pointed(h, NullPtr)
    ELSE CloneNodes(malloc(h, "array", <<>>).heap, nodes, count, Len(h) + 1, 1)

RECURSIVE CloneParams(_, _, _, _, _, _)

\* for (j = 0; j < n; j++) type_free(param_types[j]), from element j
RECURSIVE FreeTypes(_, _, _, _)
FreeTypes(h, types, n, j) ==
    IF After(h, j <= n) THEN FreeTypes(type_free(h, h[types].data[j]), types, n, j + 1)
    ELSE h

\* the body of the loop of clone_type over the parameter types: c is what
\* clone_type returned for parameter i.  On a NULL the types cloned so far,
\* the array and the return type are released
CloneParamsStore(c, types, count, cloned, i, return_type) ==
    IF c.ret = NullPtr
    THEN Pointed(type_free(free(FreeTypes(c.heap, cloned, i - 1, 1), cloned),
                           return_type),
                 NullPtr)
    ELSE CloneParams([c.heap EXCEPT ![cloned].data = Append(@, c.ret)],
                     types, count, cloned, i + 1, return_type)

\* the loop of clone_type over the parameter types, from parameter i
CloneParams(h, types, count, cloned, i, return_type) ==
    IF i > count THEN Pointed(h, cloned)
    ELSE CloneParamsStore(clone_type(h, h[types].data[i]), types, count,
                          cloned, i, return_type)

\* clone_type of a TYPE_ARRAY once the element type is cloned
CloneArrayType(e, size) ==
    IF e.ret = NullPtr THEN e ELSE type_create_array(e.heap, e.ret, size)

\* clone_type of a TYPE_FUNCTION once the parameter types are cloned into
\* the array p.ret (NULL when one of them could not be cloned)
CloneFunctionCreate(p, return_type, param_count) ==
    IF p.ret = NullPtr THEN p
    ELSE type_create_function(p.heap, return_type, p.ret, param_count)

\* clone_type of a TYPE_FUNCTION once the return type is cloned
CloneFunctionType(r, type) ==
    IF r.ret = NullPtr THEN r
    ELSE IF r.heap[type].data.param_count > 0
             /\ r.heap[type].data.param_types # NullPtr
        THEN CloneFunctionCreate(
                 CloneParams(
                     malloc(r.heap, "array", <<>>).heap,
                     r.heap[type].data.param_types,
                     r.heap[type].data.param_count, Len(r.heap) + 1, 1, r.ret),
                 r.ret, r.heap[type].data.param_count)
    ELSE type_create_function(r.heap, r.ret, NullPtr,
                              r.heap[type].data.param_count)

\* static TypeInfo* clone_type(TypeInfo* type)
clone_type(h, type) ==
    IF type = NullPtr THEN Pointed(h, NullPtr)
    ELSE IF h[type].data.category = "TYPE_ARRAY"
        THEN CloneArrayType(clone_type(h, h[type].data.element_type),
                            h[type].data.size)
    ELSE IF h[type].data.category = "TYPE_FUNCTION"
        THEN CloneFunctionType(clone_type(h, h[type].data.return_type), type)
    ELSE type_create(h, h[type].data.category)

\* what each case of the switch of ast_clone clones before it calls the
\* constructor, in order; the other members are passed as they are
CloneSteps ==
    [AST_PROGRAM |-> <<<<"clone_node_array", "declarations">>>>,
     AST_FUNCTION_DECL |-> <<<<"clone_node_array", "parameters">>,
                             <<"ast_clone", "body">>,
                             <<"clone_type", "return_type">>>>,
     AST_VAR_DECL |-> <<<<"ast_clone", "initializer">>,
                        <<"clone_type", "var_type">>>>,
     AST_ARRAY_DECL |-> <<<<"clone_node_array", "initializers">>,
                          <<"clone_type", "element_type">>>>,
     AST_BLOCK |-> <<<<"clone_node_array", "statements">>>>,
     AST_IF_STMT |-> <<<<"ast_clone", "condition">>,
                       <<"ast_clone", "then_branch">>,
                       <<"ast_clone", "else_branch">>>>,
     AST_WHILE_STMT |-> <<<<"ast_clone", "condition">>, <<"ast_clone", "body">>>>,
     AST_DO_WHILE_STMT |-> <<<<"ast_clone", "body">>,
                             <<"ast_clone", "condition">>>>,
     AST_FOR_STMT |-> <<<<"ast_clone", "initializer">>,
                        <<"ast_clone", "condition">>,
                        <<"ast_clone", "increment">>, <<"ast_clone", "body">>>>,
     AST_RETURN_STMT |-> <<<<"ast_clone", "value">>>>,
     AST_EXPR_STMT |-> <<<<"ast_clone", "expression">>>>,
     AST_BINARY_EXPR |-> <<<<"ast_clone", "left">>, <<"ast_clone", "right">>>>,
     AST_UNARY_EXPR |-> <<<<"ast_clone", "operand">>>>,
     AST_ARRAY_ACCESS |-> <<<<"ast_clone", "array">>, <<"ast_clone", "index">>>>,
     AST_CALL_EXPR |-> <<<<"ast_clone", "callee">>,
                         <<"clone_node_array", "arguments">>>>,
     AST_ASSIGNMENT |-> <<<<"ast_clone", "target">>, <<"ast_clone", "value">>>>,
     AST_TYPE |-> <<<<"clone_type", "type_data">>>>]

\* the members as with the one named replaced by r.ret
Cloned(as, member, r) == [heap |-> r.heap, as |-> [as EXCEPT ![member] = r.ret]]

\* a step that passes the child, the type or the array of the node itself
CloneStep_shallow(s, node, step) ==
    Cloned(s.as, step[2], Pointed(s.heap, s.heap[node].data.as[step[2]]))

\* one step of a case of ast_clone on the node: s holds the heap and the
\* members cloned so far
CloneStep(s, node, step) ==
    IF step[1] = "ast_clone"
        THEN Cloned(s.as, step[2],
                    ast_clone(s.heap, s.heap[node].data.as[step[2]]))
    ELSE IF step[1] = "clone_type"
        THEN Cloned(s.as, step[2],
                    clone_type(s.heap, s.heap[node].data.as[step[2]]))
    ELSE Cloned(s.as, step[2],
                clone_node_array(
                    s.heap, s.heap[node].data.as[step[2]],
                    s.heap[node].data.as[ChildArray[s.heap[node].data.type][2]]))

\* the steps of a case of ast_clone from step i
RECURSIVE CloneSwitch(_, _, _, _)
CloneSwitch(s, node, steps, i) ==
    IF After(s, i <= Len(steps))
    THEN CloneSwitch(CloneStep(s, node, steps[i]), node, steps, i + 1)
    ELSE s

\* the string a constructor is passed: the one the node points at
StringPassed(s, type) ==
    IF type \in DOMAIN DuplicatedString
    THEN [s.as EXCEPT ![DuplicatedString[type]] = s.heap[@].data]
    ELSE s.as

\* cloned = ast_create_...(..., node->location), the call that ends each
\* case of ast_clone
CloneCreate(s, node) ==
    ast_create(s.heap, s.heap[node].data.type, s.heap[node].data.location,
               StringPassed(s, s.heap[node].data.type))

\* if (cloned && node->type_info) cloned->type_info = clone_type(...): t is
\* what clone_type returned
CloneTypeInfo(cloned, t) ==
    Pointed([t.heap EXCEPT ![cloned].data.type_info = t.ret], cloned)

\* the end of ast_clone: c is what the constructor returned
CloneEnd(c, node) ==
    IF c.ret # NullPtr /\ c.heap[node].data.type_info # NullPtr
    THEN CloneTypeInfo(c.ret, clone_type(c.heap, c.heap[node].data.type_info))
    ELSE c

\* the constructor and the end of ast_clone once the case of the switch has
\* cloned the members, s
CloneNode(s, node) == After(s, CloneEnd(CloneCreate(s, node), node))

\* AstNode* ast_clone(AstNode* node)
ast_clone(h, node) ==
    IF node = NullPtr THEN Pointed(h, NullPtr)
    ELSE CloneNode(CloneSwitch([heap |-> h, as |-> h[node].data.as], node,
                               StepsOf(CloneSteps, h[node].data.type), 1),
                   node)

-----------------------------------------------------------------------------
(* target/target_info.h, target/target_info.c.  The arrays of register    *)
(* names are sequences of strings; an enumeration that is only stored is  *)
(* kept by the name of its enumerator.  The warnings written to stderr    *)
(* are left out.                                                          *)

TARGET_ARCH_X86 == 0
TARGET_ARCH_X86_64 == 1
TARGET_ARCH_UNKNOWN == 2

ENDIAN_LITTLE == 0
ENDIAN_BIG == 1

x86_registers == <<"eax", "ebx", "ecx", "edx", "esi", "edi", "ebp", "esp">>

x86_arg_registers == <<>>

x86_64_registers ==
    <<"rax", "rbx", "rcx", "rdx", "rsi", "rdi", "rbp", "rsp",
      "r8", "r9", "r10", "r11", "r12", "r13", "r14", "r15">>

x86_64_arg_registers == <<"rdi", "rsi", "rdx", "rcx", "r8", "r9">>

\* int target_get_word_size(TargetArchitecture arch)
target_get_word_size(arch) ==
    IF arch = TARGET_ARCH_X86 THEN 4 ELSE 8

\* RegisterInfo target_get_register_info(TargetArchitecture arch)
target_get_register_info(arch) ==
    IF arch = TARGET_ARCH_X86
    THEN [general_purpose |-> x86_registers,
          num_general_purpose |-> Len(x86_registers),
          argument_passing |-> x86_arg_registers,
          num_argument_passing |-> Len(x86_arg_registers),
          return_value |-> "eax"]
    ELSE [general_purpose |-> x86_64_registers,
          num_general_purpose |-> Len(x86_64_registers),
          argument_passing |-> x86_64_arg_registers,
          num_argument_passing |-> Len(x86_64_arg_registers),
          return_value |-> "rax"]

\* CallingConventionInfo target_get_calling_convention(TargetArchitecture arch)
target_get_calling_convention(arch) ==
    IF arch = TARGET_ARCH_X86
    THEN [type |-> "CALLING_CONV_CDECL",
          argument_regs |-> NULL,
          num_argument_regs |-> 0,
          return_reg |-> "eax",
          stack_cleanup_caller |-> TRUE,
          alignment |-> 4]
    ELSE [type |-> "CALLING_CONV_SYSTEMV_AMD64",
          argument_regs |-> x86_64_arg_registers,
          num_argument_regs |-> Len(x86_64_arg_registers),
          return_reg |-> "rax",
          stack_cleanup_caller |-> FALSE,
          alignment |-> 16]

\* TargetInfo target_init_arch(TargetArchitecture arch); info is the local
\* TargetInfo as it is before the assignments, which is never initialised:
\* the member endianness is not assigned and keeps the value found there
target_init_arch(arch, info) ==
    [arch |-> arch,
     word_size |-> target_get_word_size(arch),
     pointer_size |-> target_get_word_size(arch),
     big_endian |-> FALSE,
     registers |-> target_get_register_info(arch),
     calling_convention |-> target_get_calling_convention(arch),
     stack_alignment |-> IF arch = TARGET_ARCH_X86 THEN 4 ELSE 16,
     asm_syntax |-> "intel",
     endianness |-> info.endianness]

----------------------------------------------------------------------------
(* The calls made of the pure functions: Init draws a call, the action     *)
(* makes it.                                                               *)

\* bytes of every class of utf8_decode: ASCII, continuation bytes at the
\* edges 0x80 0x8F 0x90 0x9F 0xA0 0xBF, leads 0xC0 0xC2 0xDF 0xE0 0xE1 0xED
\* 0xEF 0xF0 0xF4 0xF5, and the invalid leads 0xF8 0xFF
ByteSample ==
    {65, 127, 128, 143, 144, 159, 160, 191, 192, 194, 223, 224, 225, 237,
     239, 240, 244, 245, 248, 255}

ByteStrings == UNION {[1..n -> ByteSample] : n \in 0..UTF8_MAX_BYTES}

DecodeInputs ==
    [str : ByteStrings, character : {StaleChar}]
        \cup [str : {NULL, <<>>, <<65>>}, character : {NULL_CHAR, StaleChar}]

Window == 8
Stride == 509

\* the edges of the encoding classes, of the surrogates and of the range
CodepointEdges == {0, 128, 2048, 55296, 57344, 65536, 1114112}

CodepointInputs ==
    {e + d : e \in CodepointEdges, d \in 0..Window}
        \cup {e - d : e \in CodepointEdges \ {0}, d \in 1..Window}
        \cup {k * Stride : k \in 0..((1114112 \div Stride) + Window)}
        \cup {2147483647}

EncodeInputs ==
    [codepoint : CodepointInputs, character : {StaleChar}]
        \cup [codepoint : {65, 1114112}, character : {NULL_CHAR}]

NoResult == [ret |-> -1, character |-> NULL_CHAR]

\* the diagnostics as the program starts, for the calls that do not use them
ErrorIdle ==
    /\ error_count = 0
    /\ error_list = EmptyBag
    /\ error_log_file = "NULL"
    /\ released = EmptyBag
    /\ notices = 0
    /\ exited = FALSE
    /\ last = NoCall

\* no source file is open
LexerIdle == lexer = lexer_init(<<>>) /\ calls = <<>> /\ ctype_outside = FALSE

\* no tree was built
AstNone ==
    [N |-> NullPtr, c |-> NullPtr, cloned |-> FALSE, freed |-> {},
     accepted |-> "none", visitor |-> [slots |-> {}, stop |-> {}],
     visits |-> <<>>]

AstIdle == heap = <<>> /\ ast = AstNone

\* no call of a pure function is under way
CallIdle == pc = "idle" /\ fn = "none" /\ arg = <<>> /\ result = NoResult

InitEncode ==
    /\ pc = "call"
    /\ fn = "utf8_encode"
    /\ arg \in EncodeInputs
    /\ result = NoResult
    /\ ErrorIdle
    /\ LexerIdle
    /\ AstIdle

CallEncode ==
    /\ pc = "call"
    /\ fn = "utf8_encode"
    /\ result' = utf8_encode(arg.codepoint, arg.character)
    /\ pc' = "done"
    /\ UNCHANGED <<fn, arg, errVars, lexVars, astVars>>

SpecEncode == InitEncode /\ [][CallEncode]_vars

InitDecode ==
    /\ pc = "call"
    /\ fn = "utf8_decode"
    /\ arg \in DecodeInputs
    /\ result = NoResult
    /\ ErrorIdle
    /\ LexerIdle
    /\ AstIdle

CallDecode ==
    /\ pc = "call"
    /\ fn = "utf8_decode"
    /\ result' = utf8_decode(arg.str, arg.character)
    /\ pc' = "done"
    /\ UNCHANGED <<fn, arg, errVars, lexVars, astVars>>

SpecDecode == InitDecode /\ [][CallDecode]_vars

\* the strings utf8_strcmp is called with: the encodings of the codepoint
\* strings over A, a (Cyrillic), the euro sign and U+1F600, some ill-formed
\* strings, and the null pointer
CompareAlphabet == {65, 1072, 8364, 128512}

MaxStrChars == 3

CodepointStrings == UNION {[1..n -> CompareAlphabet] : n \in 0..MaxStrChars}

RECURSIVE EncodeString(_)
EncodeString(cps) ==
    IF cps = <<>> THEN <<>>
    ELSE LET e == utf8_encode(Head(cps), StaleChar)
         IN  CStringOf(e.character.bytes, 1, e.ret) \o EncodeString(Tail(cps))

CompareStrings ==
    {EncodeString(cps) : cps \in CodepointStrings}
        \cup {<<128>>, <<65, 128>>, <<208>>, <<208, 65>>, NULL}

InitStrcmp ==
    /\ pc = "call"
    /\ fn = "utf8_strcmp"
    /\ arg \in [str1 : CompareStrings, str2 : CompareStrings]
    /\ result = NoResult
    /\ ErrorIdle
    /\ LexerIdle
    /\ AstIdle

CallStrcmp ==
    /\ pc = "call"
    /\ fn = "utf8_strcmp"
    /\ result' = [ret |-> utf8_strcmp(arg.str1, arg.str2), character |-> NULL_CHAR]
    /\ pc' = "done"
    /\ UNCHANGED <<fn, arg, errVars, lexVars, astVars>>

SpecStrcmp == InitStrcmp /\ [][CallStrcmp]_vars

\* the strings utf8_strlen is called with: every string of a few bytes of
\* each class (ASCII, continuation bytes, leads of two, three and four
\* bytes), the strings utf8_strcmp is called with, the first and last
\* codepoint of each length in one string, and a string of the utf8 tests
StrlenBytes == {65, 128, 191, 208, 226, 240}

MaxStrlenBytes == 4

StrlenStrings ==
    UNION {[1..n -> StrlenBytes] : n \in 0..MaxStrlenBytes}
        \cup CompareStrings
        \cup {<<194, 128, 223, 191, 224, 160, 128, 237, 159, 191, 238, 128,
                128, 239, 191, 191, 240, 144, 128, 128, 244, 143, 191, 191>>,
              <<209, 155, 43, 43>>}

InitStrlen ==
    /\ pc = "call"
    /\ fn = "utf8_strlen"
    /\ arg \in [str : StrlenStrings]
    /\ result = NoResult
    /\ ErrorIdle
    /\ LexerIdle
    /\ AstIdle

CallStrlen ==
    /\ pc = "call"
    /\ fn = "utf8_strlen"
    /\ result' = [ret |-> utf8_strlen(arg.str), character |-> NULL_CHAR]
    /\ pc' = "done"
    /\ UNCHANGED <<fn, arg, errVars, lexVars, astVars>>

SpecStrlen == InitStrlen /\ [][CallStrlen]_vars

\* the architecture tags target_init_arch is called with: the enumerators
\* and the other values a TargetArchitecture can hold
MaxArchTag == 24

\* what the member endianness of the local that is not initialised can hold
StaleEndianness == {ENDIAN_LITTLE, ENDIAN_BIG, ENDIAN_BIG + 1}

InitTarget ==
    /\ pc = "call"
    /\ fn = "target_init_arch"
    /\ arg \in [arch : 0..MaxArchTag, info : [endianness : StaleEndianness]]
    /\ result = NoResult
    /\ ErrorIdle
    /\ LexerIdle
    /\ AstIdle

CallTargetInitArch ==
    /\ pc = "call"
    /\ fn = "target_init_arch"
    /\ result' = [ret |-> target_init_arch(arg.arch, arg.info),
                  character |-> NULL_CHAR]
    /\ pc' = "done"
    /\ UNCHANGED <<fn, arg, errVars, lexVars, astVars>>

SpecTarget == InitTarget /\ [][CallTargetInitArch]_vars

\* the strings the keyword table is asked about: the keywords, their proper
\* prefixes, the keywords with one byte put in at any place, with one byte
\* appended, the empty string and the null pointer
KeywordStrings == {keywords_table[i].word : i \in 1..KEYWORDS_COUNT}

ExtraBytes == {49, 128, 208, 255}

KeywordInputs ==
    KeywordStrings
        \cup UNION {{SubSeq(k, 1, n) : n \in 0..Len(k)} : k \in KeywordStrings}
        \cup UNION {{SubSeq(k, 1, n) \o <<b>> \o SubSeq(k, n + 1, Len(k)) :
                        n \in 0..Len(k), b \in ExtraBytes} : k \in KeywordStrings}
        \cup {NULL}

InitKeyword ==
    /\ pc = "call"
    /\ fn = "is_keyword"
    /\ arg \in [str : KeywordInputs]
    /\ result = NoResult
    /\ ErrorIdle
    /\ LexerIdle
    /\ AstIdle

\* is_keyword(str), then get_keyword_token(str), as scan_identifier asks
CallKeyword ==
    /\ pc = "call"
    /\ fn = "is_keyword"
    /\ result' = [is_keyword |-> is_keyword(arg.str),
                  token |-> get_keyword_token(arg.str)]
    /\ pc' = "done"
    /\ UNCHANGED <<fn, arg, errVars, lexVars, astVars>>

SpecKeyword == InitKeyword /\ [][CallKeyword]_vars

\* the reports made of the registry: one of each severity
ReportInputs ==
    {[type |-> "ERROR_LEXICAL", severity |-> ERROR_WARNING, message |-> "w"],
     [type |-> "ERROR_SYNTAX", severity |-> ERROR_ERROR, message |-> "NULL"],
     [type |-> "ERROR_IO", severity |-> ERROR_FATAL, message |-> "f"]}

MaxNotices == 3

\* the statics take the values of the record d
SetErrorState(d) ==
    /\ error_count' = d.error_count
    /\ error_list' = d.error_list
    /\ error_log_file' = d.error_log_file
    /\ released' = d.released
    /\ notices' = d.notices
    /\ exited' = d.exited

InitErr == CallIdle /\ ErrorIdle /\ LexerIdle /\ AstIdle

\* bool error_init(void)
ErrorInit ==
    /\ ~exited
    /\ SetErrorState(error_init_with_log(ErrorState, FALSE, FALSE))
    /\ last' = [NoCall EXCEPT !.fn = "error_init", !.ret = "true"]
    /\ UNCHANGED <<callVars, lexVars, astVars>>

\* error_report(type, severity, ..., message, ...)
ErrorReport ==
    /\ ~exited
    /\ notices < MaxNotices
    /\ \E in \in ReportInputs :
           LET r == error_report(ErrorState, in.type, in.severity, in.message)
           IN  /\ SetErrorState(r.d)
               /\ last' = [fn |-> "error_report",
                           fatal |-> in.severity = ERROR_FATAL,
                           ret |-> r.ret, printed |-> r.printed,
                           cleaned |-> r.cleaned]
    /\ UNCHANGED <<callVars, lexVars, astVars>>

\* an AST constructor whose allocation fails calls check_null(NULL, ...)
CheckNull ==
    /\ ~exited
    /\ notices < MaxNotices
    /\ LET r == check_null(ErrorState, TRUE, "Failed to allocate node")
       IN  /\ SetErrorState(r.d)
           /\ last' = [fn |-> "check_null", fatal |-> TRUE, ret |-> r.ret,
                       printed |-> r.printed, cleaned |-> r.cleaned]
    /\ UNCHANGED <<callVars, lexVars, astVars>>

NextErr == ErrorInit \/ ErrorReport \/ CheckNull

SpecErr == InitErr /\ [][NextErr]_vars

\* the registry with error_cleanup among its calls: the entries retained and
\* the strings released are kept few
MaxEntries == 3

MaxReleased == 5

\* void error_cleanup(void)
ErrorCleanup ==
    /\ ~exited
    /\ BagCardinality(released) < MaxReleased
    /\ SetErrorState(error_cleanup(ErrorState))
    /\ last' = [NoCall EXCEPT !.fn = "error_cleanup"]
    /\ UNCHANGED <<callVars, lexVars, astVars>>

NextErrCleanup ==
    \/ error_count < MaxEntries /\ ErrorInit
    \/ error_count < MaxEntries /\ ErrorReport
    \/ error_count < MaxEntries /\ CheckNull
    \/ ErrorCleanup

SpecErrCleanup == InitErr /\ [][NextErrCleanup]_vars

----------------------------------------------------------------------------
(* The lexer at work: Init draws a source file and what the C library      *)
(* answers outside the domain of isdigit; the parser then calls            *)
(* lexer_next_token and lexer_peek_token in any order.                     *)

\* a, 1, space, =, . and "
LexAlphabet == {97, 49, 32, 61, 46, 34}

MaxSourceLen == 3

MaxCalls == 4

\* sources that hold what the alphabet does not: keywords and Cyrillic
\* identifiers, comments, a character literal, a byte that is not UTF-8 and
\* a symbol outside the identifiers (U+20AC)
ExtraSources ==
    {<<208, 176, 208, 186, 208, 190, 32, 208, 182, 49>>,
     <<47, 42, 97, 42, 47, 49, 10, 47, 47, 97, 10, 43>>,
     <<47, 42, 97>>,
     <<39, 208, 182, 39, 32, 39, 92, 110, 39>>,
     <<34, 92, 117, 48, 52, 51, 54, 34, 60, 61>>,
     <<226, 130, 172, 49, 32, 255, 97>>}

LexSources ==
    UNION {[1..n -> LexAlphabet] : n \in 0..MaxSourceLen} \cup ExtraSources

InitLex ==
    /\ CallIdle
    /\ ErrorIdle
    /\ AstIdle
    /\ ctype_outside \in BOOLEAN
    /\ \E source \in LexSources : lexer = lexer_init(source)
    /\ calls = <<>>

\* a call made of the lexer: its diagnostics reach the registry and the
\* token it returned is recorded
LexerCall(name, r) ==
    /\ lexer' = [r.lexer EXCEPT !.reports = <<>>]
    /\ SetErrorState(ApplyReports(ErrorState, r.lexer.reports, 1))
    /\ calls' = Append(calls, [fn |-> name, token |-> r.ret])
    /\ UNCHANGED <<callVars, last, ctype_outside, astVars>>

\* lexer_next_token(lexer)
LexerNextToken ==
    /\ Len(calls) < MaxCalls
    /\ LexerCall("lexer_next_token", lexer_next_token(lexer))

\* lexer_peek_token(lexer)
LexerPeekToken ==
    /\ Len(calls) < MaxCalls
    /\ LexerCall("lexer_peek_token", lexer_peek_token(lexer))

NextLex == LexerNextToken \/ LexerPeekToken

SpecLex == InitLex /\ [][NextLex]_vars

----------------------------------------------------------------------------
(* The lexer on sources made of words: keywords, identifier characters,    *)
(* digits, a decimal point, a double quote and blanks.                     *)

\* the keywords "ako" and "za" in Cyrillic, x, _, 1, a point, a double quote
\* and a space
Words ==
    {<<208, 176, 208, 186, 208, 190>>, <<208, 183, 208, 176>>, <<120>>,
     <<95>>, <<49>>, <<46>>, <<34>>, <<32>>}

MaxWords == 3

\* the sources of n words
RECURSIVE WordSources(_)
WordSources(n) ==
    IF n = 0 THEN {<<>>}
    ELSE {w \o s : w \in Words, s \in WordSources(n - 1)}

\* the keywords example of the lexer tests, the literal 3.14, numeric
\* literals of 64 bytes, and digits of less than 64 bytes: 0123, 1 behind 62
\* zeros, 63 and 20 digits, and LONG_MAX + 1 of a long of 64 bits
LongSources ==
    {<<208, 176, 208, 186, 208, 190, 32, 208, 176, 208, 186, 208, 190, 49, 32,
       95, 208, 176, 208, 186, 208, 190>>,
     <<51, 46, 49, 52>>,
     [i \in 1..62 |-> 49] \o <<46, 49>>,
     [i \in 1..64 |-> 49],
     <<48, 49, 50, 51>>,
     [i \in 1..62 |-> 48] \o <<49>>,
     [i \in 1..63 |-> 49],
     [i \in 1..20 |-> 49],
     <<57, 50, 50, 51, 51, 55, 50, 48, 51, 54, 56, 53, 52, 55, 55, 53, 56,
       48, 56>>}

InitLexWords ==
    /\ CallIdle
    /\ ErrorIdle
    /\ AstIdle
    /\ ctype_outside \in BOOLEAN
    /\ \E source \in UNION {WordSources(n) : n \in 0..MaxWords} \cup LongSources :
           lexer = lexer_init(source)
    /\ calls = <<>>

SpecLexWords == InitLexWords /\ [][NextLex]_vars

----------------------------------------------------------------------------
(* The lexer on string and character literals.                             *)

\* what follows the backslash of an escape: the letters " \ r t 0 n b f v a
\* ' q, and u0041 u0436 u00 x41 xE9 x4
EscapeBodies ==
    {<<34>>, <<92>>, <<114>>, <<116>>, <<48>>, <<110>>, <<98>>, <<102>>,
     <<118>>, <<97>>, <<39>>, <<113>>,
     <<117, 48, 48, 52, 49>>, <<117, 48, 52, 51, 54>>, <<117, 48, 48>>,
     <<120, 52, 49>>, <<120, 69, 57>>, <<120, 52>>}

\* the escape in a string literal, a blank, the escape in a character literal
EscapePair(body) ==
    <<34, 92>> \o body \o <<34, 32, 39, 92>> \o body \o <<39>>

\* the encodings of U+000A U+0041 U+007F U+0080 U+00E9 U+0436 U+0490 U+07FF
\* U+0800 U+20AC U+D7FF U+E000 U+FFFF U+10000 U+1F600 U+10FFFF
ScalarEncodings ==
    {<<10>>, <<65>>, <<127>>, <<194, 128>>, <<195, 169>>, <<208, 182>>,
     <<210, 144>>, <<223, 191>>, <<224, 160, 128>>, <<226, 130, 172>>,
     <<237, 159, 191>>, <<238, 128, 128>>, <<239, 191, 191>>,
     <<240, 144, 128, 128>>, <<240, 159, 152, 128>>, <<244, 143, 191, 191>>}

\* a character literal and a string literal of one character
CharacterLiteral(body) == <<39>> \o body \o <<39>>
StringLiteral(body) == <<34>> \o body \o <<34>>

LiteralSources ==
    {EscapePair(body) : body \in EscapeBodies}
        \cup {CharacterLiteral(<<92>> \o body) : body \in EscapeBodies}
        \cup {CharacterLiteral(body) : body \in ScalarEncodings}
        \cup {StringLiteral(body) : body \in ScalarEncodings}

InitLexLiterals ==
    /\ CallIdle
    /\ ErrorIdle
    /\ AstIdle
    /\ ctype_outside \in BOOLEAN
    /\ \E source \in LiteralSources : lexer = lexer_init(source)
    /\ calls = <<>>

SpecLexLiterals == InitLexLiterals /\ [][NextLex]_vars

----------------------------------------------------------------------------
(* The trees the AST operations are called on, built with the constructors *)

\* source_location_create(1, 1, "test")
Location == [line |-> 1, column |-> 1, filename |-> "test"]

\* the description of a node, of an absent child and of a TypeInfo; info is
\* what semantic analysis stores in type_info
Node(type, as) == [type |-> type, info |-> [category |-> "none"], as |-> as]
Absent == [type |-> "absent"]
NoType == [category |-> "none"]
Type(category) == [category |-> category]
IntLiteral(n) == Node("AST_LITERAL_INT", [value |-> n])
Name(str) == Node("AST_IDENTIFIER", [name |-> str])

\* the members of each variant that point at a block, in the order of the
\* grammar, and what they point at
Members ==
    [AST_PROGRAM |-> <<<<"declarations", "nodes">>>>,
     AST_FUNCTION_DECL |-> <<<<"name", "string">>, <<"parameters", "nodes">>,
                             <<"body", "node">>, <<"return_type", "type">>>>,
     AST_VAR_DECL |-> <<<<"name", "string">>, <<"initializer", "node">>,
                        <<"var_type", "type">>>>,
     AST_ARRAY_DECL |-> <<<<"name", "string">>, <<"initializers", "nodes">>,
                          <<"element_type", "type">>>>,
     AST_BLOCK |-> <<<<"statements", "nodes">>>>,
     AST_IF_STMT |-> <<<<"condition", "node">>, <<"then_branch", "node">>,
                       <<"else_branch", "node">>>>,
     AST_WHILE_STMT |-> <<<<"condition", "node">>, <<"body", "node">>>>,
     AST_DO_WHILE_STMT |-> <<<<"body", "node">>, <<"condition", "node">>>>,
     AST_FOR_STMT |-> <<<<"initializer", "node">>, <<"condition", "node">>,
                        <<"increment", "node">>, <<"body", "node">>>>,
     AST_RETURN_STMT |-> <<<<"value", "node">>>>,
     AST_EXPR_STMT |-> <<<<"expression", "node">>>>,
     AST_BINARY_EXPR |-> <<<<"left", "node">>, <<"right", "node">>>>,
     AST_UNARY_EXPR |-> <<<<"operand", "node">>>>,
     AST_LITERAL_STRING |-> <<<<"value", "string">>>>,
     AST_IDENTIFIER |-> <<<<"name", "string">>>>,
     AST_ARRAY_ACCESS |-> <<<<"array", "node">>, <<"index", "node">>>>,
     AST_CALL_EXPR |-> <<<<"callee", "node">>, <<"arguments", "nodes">>>>,
     AST_ASSIGNMENT |-> <<<<"target", "node">>, <<"value", "node">>>>,
     AST_TYPE |-> <<<<"type_data", "type">>>>]

RECURSIVE Build(_, _)
RECURSIVE BuildType(_, _)

\* an array of the caller holding the pointers built from the descriptions
\* ds, from description i: not a block of the heap of the AST; the caller
\* stops at an element that could not be built
RECURSIVE BuildArray(_, _, _, _, _)
BuildArrayStore(b, kind, ds, i, items) ==
    IF b.ret = NullPtr THEN b
    ELSE BuildArray(b.heap, kind, ds, i + 1, Append(items, b.ret))

BuildArray(h, kind, ds, i, items) ==
    IF i > Len(ds)
    THEN IF ds = <<>> THEN Pointed(h, NullPtr) ELSE malloc(h, "caller", items)
    ELSE BuildArrayStore(IF kind = "nodes" THEN Build(h, ds[i])
                         ELSE BuildType(h, ds[i]),
                         kind, ds, i, items)

BuildFunctionType(h, r, params, n) ==
    type_create_function(params.heap, r, params.ret, n)

BuildFunctionParams(r, t) ==
    BuildFunctionType(r.heap, r.ret,
                      BuildArray(r.heap, "types", t.param_types, 1, <<>>),
                      Len(t.param_types))

BuildArrayType(e, size) == type_create_array(e.heap, e.ret, size)

BuildType(h, t) ==
    IF t.category = "none" THEN Pointed(h, NullPtr)
    ELSE IF t.category = "TYPE_ARRAY"
        THEN BuildArrayType(BuildType(h, t.element_type), t.size)
    ELSE IF t.category = "TYPE_FUNCTION"
        THEN BuildFunctionParams(BuildType(h, t.return_type), t)
    ELSE type_create(h, t.category)

\* the arguments of the constructor of the node described, from member i
RECURSIVE BuildMembers(_, _, _)
BuildMember(s, m) ==
    IF m[2] = "node" THEN Cloned(s.as, m[1], Build(s.heap, s.as[m[1]]))
    ELSE IF m[2] = "nodes"
        THEN Cloned(s.as, m[1], BuildArray(s.heap, "nodes", s.as[m[1]], 1, <<>>))
    ELSE IF m[2] = "type" THEN Cloned(s.as, m[1], BuildType(s.heap, s.as[m[1]]))
    ELSE s

BuildMembers(s, members, i) ==
    IF After(s, i <= Len(members))
    THEN BuildMembers(BuildMember(s, members[i]), members, i + 1)
    ELSE s

BuildCreate(s, type) == ast_create(s.heap, type, Location, s.as)

\* the node with the type semantic analysis found for it
BuildInfo(n, t) ==
    IF t.ret = NullPtr THEN n
    ELSE Pointed([t.heap EXCEPT ![n.ret].data.type_info = t.ret], n.ret)

BuildAnnotated(n, info) == BuildInfo(n, BuildType(n.heap, info))

\* the constructor called once its arguments, s, are built
BuildNode(s, d) == After(s, BuildAnnotated(BuildCreate(s, d.type), d.info))

Build(h, d) ==
    IF d.type = "absent" THEN Pointed(h, NullPtr)
    ELSE BuildNode(BuildMembers([heap |-> h, as |-> d.as],
                                StepsOf(Members, d.type), 1),
                   d)

\* the names f, x and the Cyrillic word of the cloning test
NameF == <<102>>
NameX == <<120>>
NameTest == <<209, 130, 208, 181, 209, 129, 209, 130>>

Break == Node("AST_BREAK_STMT", <<>>)
Binary(left, operator, right) ==
    Node("AST_BINARY_EXPR",
         [left |-> left, right |-> right, operator |-> operator])
Assign(target, value) ==
    Node("AST_ASSIGNMENT", [target |-> target, value |-> value])
Return(value) == Node("AST_RETURN_STMT", [value |-> value])
Block(statements) ==
    Node("AST_BLOCK", [statements |-> statements,
                       statement_count |-> Len(statements)])

\* 42 + test, the tree of the cloning test; (40 + x) * 2, the tree of the
\* visitor test
CloningTestTree == Binary(IntLiteral(42), "TOKEN_PLUS", Name(NameTest))
VisitorTestTree ==
    Binary(Binary(IntLiteral(40), "TOKEN_PLUS", Name(NameX)), "TOKEN_STAR", IntLiteral(2))

\* f(1, "x", 'x', true) with the type semantic analysis gave the call
CallTree ==
    [Node("AST_CALL_EXPR",
          [callee |-> Name(NameF),
           arguments |-> <<IntLiteral(1),
                           Node("AST_LITERAL_STRING", [value |-> NameX]),
                           Node("AST_LITERAL_CHAR", [value |-> 120]),
                           Node("AST_LITERAL_BOOL", [value |-> TRUE])>>,
           argument_count |-> 4])
         EXCEPT !.info = Type("TYPE_INT")]

\* a block of an if without else and a while over an empty block
BranchesTree ==
    Block(<<Node("AST_IF_STMT", [condition |-> Name(NameX),
                                 then_branch |-> Break,
                                 else_branch |-> Absent]),
            Node("AST_WHILE_STMT", [condition |-> Name(NameX),
                                    body |-> Block(<<>>)])>>)

\* a block of a do-while and a for without initializer
LoopsTree ==
    Block(<<Node("AST_DO_WHILE_STMT",
                 [condition |-> Name(NameF),
                  body |-> Node("AST_EXPR_STMT",
                                [expression |-> Assign(Name(NameX), IntLiteral(1))])]),
            Node("AST_FOR_STMT",
                 [initializer |-> Absent,
                  condition |-> Name(NameX),
                  increment |-> Node("AST_UNARY_EXPR",
                                     [operand |-> Name(NameX),
                                      operator |-> "TOKEN_MINUS",
                                      is_prefix |-> TRUE]),
                  body |-> Return(Absent)])>>)

\* a program of a function with a parameter, a variable of an array type,
\* an array with initializers and a type node of a function type
DeclarationsTree ==
    Node("AST_PROGRAM",
         [declarations |->
            <<Node("AST_FUNCTION_DECL",
                   [name |-> NameF,
                    parameters |->
                      <<Node("AST_VAR_DECL",
                             [name |-> NameX, initializer |-> Absent,
                              var_type |-> Type("TYPE_INT")])>>,
                    parameter_count |-> 1,
                    body |-> Block(<<Return(Name(NameX))>>),
                    return_type |-> Type("TYPE_INT"),
                    is_external |-> FALSE]),
              Node("AST_VAR_DECL",
                   [name |-> NameTest,
                    initializer |->
                      Node("AST_ARRAY_ACCESS",
                           [array |-> Name(NameX), index |-> IntLiteral(0)]),
                    var_type |-> [category |-> "TYPE_ARRAY",
                                  element_type |-> Type("TYPE_CHAR"),
                                  size |-> 2]]),
              Node("AST_ARRAY_DECL",
                   [name |-> NameX, size |-> 2,
                    initializers |-> <<IntLiteral(1), IntLiteral(2)>>,
                    initializer_count |-> 2,
                    element_type |-> Type("TYPE_INT")]),
              Node("AST_TYPE",
                   [type_data |->
                      [category |-> "TYPE_FUNCTION",
                       return_type |-> Type("TYPE_VOID"),
                       param_types |-> <<Type("TYPE_BOOL"),
                                         Type("TYPE_INT")>>]])>>,
          declaration_count |-> 4])

\* a program without declarations
EmptyProgram ==
    Node("AST_PROGRAM", [declarations |-> <<>>, declaration_count |-> 0])

Trees ==
    {Absent, CloningTestTree, VisitorTestTree, CallTree, BranchesTree, LoopsTree,
     DeclarationsTree, EmptyProgram}

\* the visitor of the visitor test counts the expressions
AllSlots == {VisitorSlot[type] : type \in DOMAIN VisitorSlot}
ExpressionSlots ==
    {"visit_binary_expr", "visit_unary_expr", "visit_literal_int",
     "visit_literal_char", "visit_literal_string", "visit_literal_bool",
     "visit_identifier"}

\* the visitors: with every callback, with those of the expressions or with
\* none, whose callbacks return true but at one node at most
Visitors ==
    {[slots |-> s, stop |-> x] :
        s \in {AllSlots, ExpressionSlots, {}},
        x \in {{}} \cup {{p} : p \in {q \in 1..Len(heap) :
                                        heap[q].kind = "AstNode"}}}

\* N = the tree built from description d
Built(b) == heap = b.heap /\ ast = [AstNone EXCEPT !.N = b.ret]

InitAst ==
    /\ CallIdle
    /\ ErrorIdle
    /\ LexerIdle
    /\ \E d \in Trees : Built(Build(<<>>, d))

\* c = ast_clone(N)
AstCloned(r) == heap' = r.heap /\ ast' = [ast EXCEPT !.c = r.ret, !.cloned = TRUE]

AstClone ==
    /\ ~ast.cloned
    /\ "N" \notin ast.freed
    /\ AstCloned(ast_clone(heap, ast.N))
    /\ UNCHANGED <<callVars, errVars, lexVars>>

\* ast_free(N) or ast_free(c)
AstFree ==
    /\ \E tree \in {"N", "c"} \ ast.freed :
           /\ tree = "c" => ast.cloned
           /\ heap' = ast_free(heap, ast[tree])
           /\ ast' = [ast EXCEPT !.freed = @ \cup {tree}]
    /\ UNCHANGED <<callVars, errVars, lexVars>>

\* ast_accept(N, visitor)
AstAccepted(visitor, r) ==
    ast' = [ast EXCEPT !.accepted = IF r.ret THEN "true" ELSE "false",
                       !.visitor = visitor, !.visits = r.visits]

AstAccept ==
    /\ ast.accepted = "none"
    /\ "N" \notin ast.freed
    /\ \E visitor \in Visitors :
           AstAccepted(visitor, ast_accept(heap, ast.N, visitor, <<>>))
    /\ UNCHANGED <<heap, callVars, errVars, lexVars>>

NextAst == AstClone \/ AstFree \/ AstAccept

SpecAst == InitAst /\ [][NextAst]_vars

----------------------------------------------------------------------------
(* Claims about utf8_encode and utf8_decode *)

IsSurrogate(c) == c >= 55296 /\ c <= 57343

\* the number of bytes the prefix of a leading byte announces (0: none)
LeadClass(b) ==
    IF b < 128 THEN 1
    ELSE IF b >= 192 /\ b <= 223 THEN 2
    ELSE IF b >= 224 /\ b <= 239 THEN 3
    ELSE IF b >= 240 /\ b <= 247 THEN 4
    ELSE 0

EncodeRoundTrips(c, r) ==
    /\ r.ret \in 1..4
    /\ LeadClass(r.character.bytes[1]) = r.ret
    /\ LET back == utf8_decode(CStringOf(r.character.bytes, 1, r.ret), StaleChar)
       IN  back.ret = r.ret /\ back.character.codepoint = c

EncodeDone == pc = "done" /\ fn = "utf8_encode" /\ arg.character # NULL_CHAR

\* C5 as stated: for every codepoint c with 0 <= c <= U+10FFFF outside
\* U+D800..U+DFFF, utf8_encode(c) returns a length n in 1..4 whose leading
\* byte has the prefix class of an n-byte sequence, and utf8_decode of the n
\* encoded bytes, NUL-terminated, returns n with codepoint c.
C5_RoundTripFromZero ==
    (EncodeDone /\ arg.codepoint <= 1114111 /\ ~IsSurrogate(arg.codepoint))
        => EncodeRoundTrips(arg.codepoint, result)

\* C5 amended: the same for every codepoint c with 1 <= c <= U+10FFFF outside
\* U+D800..U+DFFF (the encoding of U+0000 is the terminator itself, which
\* utf8_decode reads as the empty string).
C5_RoundTrip ==
    (EncodeDone /\ arg.codepoint >= 1 /\ arg.codepoint <= 1114111
        /\ ~IsSurrogate(arg.codepoint))
        => EncodeRoundTrips(arg.codepoint, result)

C5_Witness == EncodeDone /\ arg.codepoint = 1114111 /\ result.ret = 4

\* C8: utf8_encode returns 0 for every value above U+10FFFF and for every
\* surrogate U+D800..U+DFFF, and a length in 1..4 for every valid codepoint.
C8_EncodeRejectsInvalid ==
    EncodeDone =>
        IF arg.codepoint > 1114111 \/ IsSurrogate(arg.codepoint)
        THEN result.ret = 0
        ELSE result.ret \in 1..4

DecodeDone ==
    pc = "done" /\ fn = "utf8_decode" /\ arg.str # NULL
        /\ arg.character # NULL_CHAR


\* The classes of C7, read off the bytes (b0 is not NUL).
IsCont(b) == b >= 128 /\ b <= 191

InvalidLead(str) == LeadClass(ByteAt(str, 0)) = 0

CutShort(str) ==
    \E i \in 1..(LeadClass(ByteAt(str, 0)) - 1) : ByteAt(str, i) = 0

NonContinuation(str) ==
    \E i \in 1..(LeadClass(ByteAt(str, 0)) - 1) :
        ByteAt(str, i) # 0 /\ ~IsCont(ByteAt(str, i))

Complete(str) ==
    /\ LeadClass(ByteAt(str, 0)) >= 1
    /\ \A i \in 1..(LeadClass(ByteAt(str, 0)) - 1) : IsCont(ByteAt(str, i))

\* the value a complete sequence carries
SequenceValue(str) ==
    LET n == LeadClass(ByteAt(str, 0))
        c(i) == ByteAt(str, i) - 128
    IN  IF n = 1 THEN ByteAt(str, 0)
        ELSE IF n = 2 THEN (ByteAt(str, 0) - 192) * 64 + c(1)
        ELSE IF n = 3 THEN (ByteAt(str, 0) - 224) * 4096 + c(1) * 64 + c(2)
        ELSE (ByteAt(str, 0) - 240) * 262144 + c(1) * 4096 + c(2) * 64 + c(3)

\* the least value that needs n bytes
LeastOfLength(n) == IF n = 1 THEN 0 ELSE IF n = 2 THEN 128
                    ELSE IF n = 3 THEN 2048 ELSE 65536

Overlong(str) ==
    Complete(str) /\ SequenceValue(str) < LeastOfLength(LeadClass(ByteAt(str, 0)))

EncodedSurrogate(str) == Complete(str) /\ IsSurrogate(SequenceValue(str))

AboveRange(str) == Complete(str) /\ SequenceValue(str) > 1114111

WellFormed(str) ==
    /\ Complete(str)
    /\ ~Overlong(str) /\ ~EncodedSurrogate(str) /\ ~AboveRange(str)

\* C6: whenever utf8_decode returns 0 on an overlong, surrogate, out-of-range
\* or truncated input, the output record holds no partial result: its length
\* is 0, its codepoint is 0 and its bytes are all zero.
C6_NoPartialResult ==
    (DecodeDone /\ arg.str # <<>> /\ result.ret = 0
        /\ (Overlong(arg.str) \/ EncodedSurrogate(arg.str)
              \/ AboveRange(arg.str) \/ CutShort(arg.str)))
        => result.character = ZeroChar

\* C7: utf8_decode returns 0 for every input that begins with an overlong
\* encoding, an encoded surrogate, an encoded value above U+10FFFF, a
\* multi-byte sequence cut short by the terminating NUL, a non-continuation
\* byte where a continuation byte is required, or an invalid leading byte;
\* and it returns the sequence length and the codepoint for every well-formed
\* encoding of a non-zero scalar value.
C7_DecodeAcceptsWellFormedOnly ==
    (DecodeDone /\ arg.str # <<>>) =>
        /\ (Overlong(arg.str) \/ EncodedSurrogate(arg.str) \/ AboveRange(arg.str)
              \/ CutShort(arg.str) \/ NonContinuation(arg.str)
              \/ InvalidLead(arg.str)) => result.ret = 0
        /\ WellFormed(arg.str) =>
              /\ result.ret = LeadClass(ByteAt(arg.str, 0))
              /\ result.ret \in 1..4
              /\ result.character.codepoint = SequenceValue(arg.str)

C7_Witness ==
    /\ DecodeDone
    /\ arg.str = <<224, 159, 191>>
    /\ Overlong(arg.str)
    /\ result.ret = 0

----------------------------------------------------------------------------
(* Claims about utf8_strcmp and the keyword table *)

\* a string of well-formed encodings, and the codepoints it encodes
RECURSIVE WellFormedString(_)
WellFormedString(str) ==
    \/ str = <<>>
    \/ /\ WellFormed(str)
       /\ WellFormedString(Suffix(str, LeadClass(ByteAt(str, 0))))

RECURSIVE CodepointsOf(_)
CodepointsOf(str) ==
    IF str = <<>> THEN <<>>
    ELSE <<SequenceValue(str)>>
             \o CodepointsOf(Suffix(str, LeadClass(ByteAt(str, 0))))

\* the order of two codepoint strings by their first difference, a proper
\* prefix below the longer string
RECURSIVE CodepointOrder(_, _)
CodepointOrder(a, b) ==
    IF a = <<>> /\ b = <<>> THEN 0
    ELSE IF a = <<>> THEN -1
    ELSE IF b = <<>> THEN 1
    ELSE IF Head(a) # Head(b) THEN Sign(Head(a) - Head(b))
    ELSE CodepointOrder(Tail(a), Tail(b))

StrcmpDone == pc = "done" /\ fn = "utf8_strcmp"

\* C10: for all well-formed UTF-8 strings a and b, utf8_strcmp(a, a) = 0; when
\* a and b differ the sign of utf8_strcmp(a, b) is the sign of the first
\* differing codepoint of a minus that of b, a proper prefix ordering below
\* the longer string; sign(utf8_strcmp(a, b)) = -sign(utf8_strcmp(b, a)); a
\* null pointer compares equal to null and below every non-null string.
C10_StrcmpOrdersByCodepoint ==
    StrcmpDone =>
        /\ (arg.str1 = NULL /\ arg.str2 = NULL) => result.ret = 0
        /\ (arg.str1 = NULL /\ arg.str2 # NULL) => result.ret < 0
        /\ (arg.str1 # NULL /\ arg.str2 = NULL) => result.ret > 0
        /\ (/\ arg.str1 # NULL /\ arg.str2 # NULL
            /\ WellFormedString(arg.str1) /\ WellFormedString(arg.str2)) =>
              /\ (arg.str1 = arg.str2) => result.ret = 0
              /\ Sign(result.ret)
                   = CodepointOrder(CodepointsOf(arg.str1), CodepointsOf(arg.str2))
              /\ Sign(result.ret) = -Sign(utf8_strcmp(arg.str2, arg.str1))

C10_Witness ==
    /\ StrcmpDone
    /\ arg.str1 = <<208, 176>>
    /\ arg.str2 = <<208, 176, 226, 130, 172>>
    /\ result.ret < 0

KeywordDone == pc = "done" /\ fn = "is_keyword"

\* C9: for every non-null string s, is_keyword(s) is true iff
\* get_keyword_token(s) is not TOKEN_KEYWORD_LAST iff s is byte-for-byte one of
\* the ten keyword strings; for a null s, is_keyword is false and
\* get_keyword_token returns TOKEN_KEYWORD_LAST.
C9_KeywordIffByteEqual ==
    KeywordDone =>
        IF arg.str = NULL
        THEN ~result.is_keyword /\ result.token = "TOKEN_KEYWORD_LAST"
        ELSE /\ result.is_keyword <=> (result.token # "TOKEN_KEYWORD_LAST")
             /\ result.is_keyword <=> (arg.str \in KeywordStrings)

----------------------------------------------------------------------------
(* Claims about the diagnostics registry *)

\* a call that reported with severity Fatal has returned or ended the process
FatalReported == last.fn \in {"error_report", "check_null"} /\ last.fatal

\* C2: every call to error_report with severity Fatal prints the entry,
\* invokes error_cleanup and terminates the process without returning to the
\* caller, whatever the number of entries already retained; this includes
\* the Internal/Fatal reports the AST constructors issue through check_null.
C2_FatalTerminates ==
    FatalReported =>
        last.printed /\ last.cleaned /\ exited /\ last.ret = "exit"

\* a report, made directly or through check_null
ReportStep == ErrorReport \/ CheckNull

\* C3: once 500 entries are retained, every further error_report call leaves
\* the registry unchanged (no entry added, counts unchanged), and over any
\* number of such further calls the "too many errors" notice is emitted
\* exactly once in total.
C3_CapDropsWithOneNotice ==
    /\ [][(error_count = MAX_ERRORS /\ ReportStep)
             => UNCHANGED <<error_count, error_list>>]_vars
    /\ []((error_count = MAX_ERRORS /\ last.ret = "false") => notices = 1)

\* the retained entries of severity s, counted on the registry itself
RetainedOfSeverity(s) ==
    BagCardinality([e \in {x \in BagToSet(error_list) : x.severity = s}
                        |-> error_list[e]])

\* C4: in every state reachable by error_init and non-fatal error_report
\* calls, the number of retained entries is between 0 and 500,
\* error_get_count(-1) equals that number, error_get_count(s) equals the
\* number of retained entries of severity s, and error_get_count(-1) is the
\* sum of the counts of Warning, Error and Fatal; each accepted Warning or
\* Error report increases the total by exactly one and returns true.
C4_CountsAgree ==
    ~exited =>
        /\ BagCardinality(error_list) \in 0..MAX_ERRORS
        /\ error_get_count(ErrorState, -1) = BagCardinality(error_list)
        /\ \A s \in {ERROR_WARNING, ERROR_ERROR, ERROR_FATAL} :
               error_get_count(ErrorState, s) = RetainedOfSeverity(s)
        /\ error_get_count(ErrorState, -1)
               = error_get_count(ErrorState, ERROR_WARNING)
                   + error_get_count(ErrorState, ERROR_ERROR)
                   + error_get_count(ErrorState, ERROR_FATAL)

C4_CountsAndAcceptedReports ==
    /\ []C4_CountsAgree
    /\ [][(ErrorReport /\ ~last'.fatal /\ error_count < MAX_ERRORS)
             => (/\ last'.ret = "true"
                 /\ error_get_count(ErrorState, -1)' 
                      = error_get_count(ErrorState, -1) + 1)]_vars

C4_Witness ==
    /\ ~exited
    /\ error_count = MAX_ERRORS
    /\ last.fn = "error_report" /\ last.ret = "true"
    /\ error_get_count(ErrorState, ERROR_WARNING) > 0
    /\ error_get_count(ErrorState, ERROR_ERROR) > 0

----------------------------------------------------------------------------
(* Claims about the AST *)

\* what a member of a variant points at: "node", "nodes", "string", "type",
\* or "value" for a member that is no pointer
MemberKind(type, member) ==
    IF \E i \in DOMAIN StepsOf(Members, type) : Members[type][i][1] = member
    THEN (CHOOSE m \in {Members[type][i] : i \in DOMAIN Members[type]} :
              m[1] = member)[2]
    ELSE "value"

\* the value a TypeInfo pointer stands for, whatever the addresses: <<>> for
\* NULL, else the record with the types it points at replaced by theirs
RECURSIVE TypeShape(_, _)
TypeShape(h, t) ==
    IF t = NullPtr THEN <<>>
    ELSE <<[category |-> h[t].data.category,
            size |-> h[t].data.size,
            element_type |-> TypeShape(h, h[t].data.element_type),
            return_type |-> TypeShape(h, h[t].data.return_type),
            param_count |-> h[t].data.param_count,
            param_types |->
                IF h[t].data.param_types = NullPtr THEN <<>>
                ELSE <<[i \in 1..h[t].data.param_count |->
                           TypeShape(h, h[h[t].data.param_types].data[i])]>>]>>

\* the tree a node pointer stands for, whatever the addresses: <<>> for
\* NULL, else the variant, the location, the type_info and the members,
\* with each pointer replaced by what it points at
RECURSIVE Shape(_, _)
MemberShape(h, node, member, kind) ==
    IF kind = "node" THEN Shape(h, h[node].data.as[member])
    ELSE IF kind = "type" THEN TypeShape(h, h[node].data.as[member])
    ELSE IF kind = "string"
        THEN IF h[node].data.as[member] = NullPtr THEN <<>>
             ELSE <<h[h[node].data.as[member]].data>>
    ELSE IF kind = "nodes"
        THEN IF h[node].data.as[member] = NullPtr THEN <<>>
             ELSE <<[i \in 1..h[node].data.as[ChildArray[h[node].data.type][2]] |->
                       Shape(h, h[h[node].data.as[member]].data[i])]>>
    ELSE h[node].data.as[member]

Shape(h, node) ==
    IF node = NullPtr THEN <<>>
    ELSE <<[type |-> h[node].data.type,
            location |-> h[node].data.location,
            type_info |-> TypeShape(h, h[node].data.type_info),
            as |-> [member \in DOMAIN h[node].data.as |->
                       MemberShape(h, node, member,
                                   MemberKind(h[node].data.type, member))]]>>

\* the blocks a TypeInfo pointer reaches: the records and the arrays of
\* parameter types
RECURSIVE TypeBlocks(_, _)
TypeBlocks(h, t) ==
    IF t = NullPtr THEN {}
    ELSE {t} \cup TypeBlocks(h, h[t].data.element_type)
             \cup TypeBlocks(h, h[t].data.return_type)
             \cup (IF h[t].data.param_types = NullPtr THEN {}
                   ELSE {h[t].data.param_types}
                        \cup UNION {TypeBlocks(h, h[h[t].data.param_types].data[i]) :
                                       i \in 1..h[t].data.param_count})

\* the blocks a node pointer reaches: nodes, strings, child arrays, TypeInfo
RECURSIVE Blocks(_, _)
MemberBlocks(h, node, member, kind) ==
    IF kind = "node" THEN Blocks(h, h[node].data.as[member])
    ELSE IF kind = "type" THEN TypeBlocks(h, h[node].data.as[member])
    ELSE IF kind = "string" THEN {h[node].data.as[member]} \ {NullPtr}
    ELSE IF h[node].data.as[member] = NullPtr THEN {}
    ELSE {h[node].data.as[member]}
         \cup UNION {Blocks(h, h[h[node].data.as[member]].data[i]) :
                        i \in 1..h[node].data.as[ChildArray[h[node].data.type][2]]}

Blocks(h, node) ==
    IF node = NullPtr THEN {}
    ELSE {node} \cup TypeBlocks(h, h[node].data.type_info)
         \cup UNION {MemberBlocks(h, node, Members[h[node].data.type][i][1],
                                  Members[h[node].data.type][i][2]) :
                        i \in DOMAIN StepsOf(Members, h[node].data.type)}

\* the tree has a child array, a string and a TypeInfo
HasEveryKind(h, node) ==
    {h[p].kind : p \in Blocks(h, node)} = {"AstNode", "string", "array", "TypeInfo"}

AstBlocks == {p \in 1..Len(heap) : heap[p].kind # "caller"}

\* C12: after c = ast_clone(N), ast_free(N) and ast_free(c), every block
\* allocated by the constructors and by ast_clone (nodes, strings, child
\* arrays, TypeInfo records, temporary arrays) has been released exactly
\* once: none is leaked, none is freed twice
C12_ReleasedOnce ==
    (ast.cloned /\ ast.freed = {"N", "c"})
        => \A p \in AstBlocks : heap[p].frees = 1

\* the nodes of the tree in pre-order, the children in the order of the
\* grammar
RECURSIVE PreOrder(_, _)
RECURSIVE EachPreOrder(_, _, _, _)
EachPreOrder(h, array, count, i) ==
    IF i > count THEN <<>>
    ELSE PreOrder(h, h[array].data[i]) \o EachPreOrder(h, array, count, i + 1)

RECURSIVE MembersPreOrder(_, _, _, _)
MembersPreOrder(h, node, members, k) ==
    IF k > Len(members) THEN <<>>
    ELSE (IF members[k][2] = "node"
              THEN PreOrder(h, h[node].data.as[members[k][1]])
          ELSE IF members[k][2] = "nodes"
                  /\ h[node].data.as[members[k][1]] # NullPtr
              THEN EachPreOrder(h, h[node].data.as[members[k][1]],
                                h[node].data.as[ChildArray[h[node].data.type][2]],
                                1)
          ELSE <<>>)
         \o MembersPreOrder(h, node, members, k + 1)

PreOrder(h, node) ==
    IF node = NullPtr THEN <<>>
    ELSE <<node>> \o MembersPreOrder(h, node,
                                     StepsOf(Members, h[node].data.type), 1)

\* the nodes of N whose variant has a callback in the visitor, in pre-order
WithCallback ==
    SelectSeq(PreOrder(heap, ast.N),
              LAMBDA p : VisitorSlot[heap[p].data.type] \in ast.visitor.slots)

\* C13: with a visitor whose callbacks all return true, ast_accept(N, v)
\* returns true and has called the callback once for each node of N whose
\* variant has one, in pre-order with the children in source order; a node
\* without callback is skipped and its children are still traversed
C13_AcceptVisitsPreOrder ==
    (ast.accepted # "none" /\ ast.visitor.stop = {})
        => /\ ast.accepted = "true"
           /\ ast.visits = WithCallback

\* a traversal whose root has no callback and that called three callbacks
\* or more below it
C13_Witness ==
    /\ ast.accepted = "true"
    /\ ast.visitor.stop = {}
    /\ ast.N # NullPtr
    /\ VisitorSlot[heap[ast.N].data.type] \notin ast.visitor.slots
    /\ Len(ast.visits) >= 3
    /\ Len(ast.visits) < Len(PreOrder(heap, ast.N))

\* the callback returned false at a node of N that has a callback
Stopped == {X \in ast.visitor.stop : \E i \in DOMAIN WithCallback : WithCallback[i] = X}

\* the elements of seq up to x
UpTo(seq, x) == SubSeq(seq, 1, CHOOSE i \in DOMAIN seq : seq[i] = x)

\* C14: if a callback returns false at a node X during ast_accept(N, v),
\* no callback is called after it (not for the children of X, nor for a
\* later sibling of X or of an ancestor of X) and ast_accept returns false
C14_StopAborts ==
    (ast.accepted # "none" /\ Stopped # {})
        => /\ ast.accepted = "false"
           /\ \A X \in Stopped : ast.visits = UpTo(WithCallback, X)

\* a traversal stopped after two callbacks or more, with callbacks of N
\* left uncalled
C14_Witness ==
    /\ ast.accepted = "false"
    /\ Stopped # {}
    /\ Len(ast.visits) >= 2
    /\ Len(ast.visits) + 2 <= Len(WithCallback)

----------------------------------------------------------------------------
(* Claims about the lexer *)

RECURSIVE TokensFrom(_, _)

\* the token lexer_next_token returned, r, followed by those of n more calls
TokensAfter(r, n) == <<r.ret>> \o TokensFrom(r.lexer, n)

\* the tokens n successive lexer_next_token calls return from the lexer lx
TokensFrom(lx, n) ==
    IF n = 0 THEN <<>> ELSE TokensAfter(lexer_next_token(lx), n - 1)

\* the tokens the lexer_next_token calls made so far have returned
TokensReturned ==
    LET made == SelectSeq(calls, LAMBDA c : c.fn = "lexer_next_token")
    IN  [i \in 1..Len(made) |-> made[i].token]

\* C1: a peek never consumes: after lexer_peek_token returns token T the
\* next lexer_next_token call returns T, and the tokens the lexer_next_token
\* calls return are, in order, those returned when no peek is made.
C1_PeekNeverConsumes ==
    /\ \A i \in 1..(Len(calls) - 1) :
           (calls[i].fn = "lexer_peek_token"
               /\ calls[i + 1].fn = "lexer_next_token")
               => calls[i + 1].token = calls[i].token
    /\ TokensReturned
           = TokensFrom(lexer_init(lexer.source), Len(TokensReturned))

\* the step is a call of lexer_next_token or lexer_peek_token that scans a
\* token: nothing was cached by a peek
ScanningCall ==
    /\ ~lexer.has_next_token
    /\ Len(calls') = Len(calls) + 1
    /\ calls'[Len(calls')].fn \in {"lexer_next_token", "lexer_peek_token"}

\* the token the last call returned
LastToken == calls[Len(calls)].token

\* the number of diagnostics the registry holds
Diagnostics == error_count

\* the source from the place where the next lexeme begins: blanks skipped
RestOfSource == Suffix(lexer.source, skip_whitespace(lexer).current)

\* the length in bytes of the longest run of identifier codepoints str
\* begins with, the first of them held to the rule of a first codepoint
RECURSIVE IdentifierRun(_, _)
IdentifierRun(str, is_start) ==
    IF str # <<>> /\ utf8_is_identifier_char(SequenceValue(str), is_start)
    THEN LeadClass(ByteAt(str, 0))
             + IdentifierRun(Suffix(str, LeadClass(ByteAt(str, 0))), FALSE)
    ELSE 0

\* the token types of the keywords whose bytes are exactly word
KeywordTypes(word) ==
    {keywords_table[i].type : i \in {k \in 1..KEYWORDS_COUNT :
                                        keywords_table[k].word = word}}

\* the token an identifier-shaped lexeme must give
IdentifierTokenExpected(token, word) ==
    /\ token.lexeme_length = Len(word)
    /\ IF KeywordTypes(word) # {}
       THEN {token.type} = KeywordTypes(word)
       ELSE token.type = "TOKEN_IDENTIFIER" /\ token.value = StringValue(word)

\* the source `ako ako1 _ako` in Cyrillic
KeywordsExample ==
    <<208, 176, 208, 186, 208, 190, 32, 208, 176, 208, 186, 208, 190, 49, 32,
      95, 208, 176, 208, 186, 208, 190>>

\* four lexer_next_token calls were made on the source of the example
KeywordsExampleRead ==
    /\ lexer.source = KeywordsExample
    /\ Len(calls) = 4
    /\ \A i \in 1..4 : calls[i].fn = "lexer_next_token"

\* C15: on well-formed UTF-8 source, for every maximal identifier-shaped
\* lexeme, lexer_next_token returns the keyword table's token when the lexeme
\* is exactly one of the ten keywords and otherwise an Identifier token whose
\* string payload equals the lexeme bytes; the input `ako ako1 _ako` (in
\* Cyrillic) yields If, Identifier("ako1"), Identifier("_ako"), Eof with no
\* diagnostic.
C15_IdentifierOrKeyword ==
    [][/\ (/\ ScanningCall
           /\ IdentifierRun(RestOfSource, TRUE) > 0
           /\ WellFormedString(lexer.source))
          => IdentifierTokenExpected(
                 LastToken',
                 SubSeq(RestOfSource, 1, IdentifierRun(RestOfSource, TRUE)))
       /\ KeywordsExampleRead'
          => /\ [i \in 1..4 |-> calls'[i].token.type]
                 = <<"TOKEN_IF", "TOKEN_IDENTIFIER", "TOKEN_IDENTIFIER",
                     "TOKEN_EOF">>
             /\ calls'[2].token.value
                 = StringValue(SubSeq(KeywordsExample, 8, 14))
             /\ calls'[3].token.value
                 = StringValue(SubSeq(KeywordsExample, 16, 22))
             /\ Diagnostics' = 0]_vars

C15_Witness ==
    /\ KeywordsExampleRead
    /\ calls[1].token.type = "TOKEN_IF"
    /\ calls[2].token.value.string = SubSeq(KeywordsExample, 8, 14)
    /\ calls[4].token.type = "TOKEN_EOF"

\* the call made added a Lexical diagnostic to the registry
LexicalAdded ==
    \E e \in DOMAIN error_list' :
        /\ e.type = "ERROR_LEXICAL"
        /\ CopiesIn(e, error_list') > CopiesIn(e, error_list)

\* C16: every token of kind Error returned by lexer_next_token or
\* lexer_peek_token carries its message in the lexeme slot (a string that is
\* alive when the token is returned), and at least one Lexical diagnostic has
\* been added to the registry by the call that produced it, whatever the
\* cause.
C16_ErrorTokenReported ==
    [][(ScanningCall /\ LastToken'.type = "TOKEN_ERROR")
          => /\ LastToken'.lexeme.base = "literal"
             /\ LastToken'.lexeme_length = Len(LastToken'.lexeme.text)
             /\ LexicalAdded]_vars

\* the diagnostics the call made added to the registry
DiagnosticsAdded == error_list' (-) error_list

\* str is a string literal without a backslash whose closing quote is missing
UnterminatedString(str) ==
    /\ str # <<>>
    /\ str[1] = 34
    /\ \A i \in 2..Len(str) : str[i] \notin {34, 92}

DigitRun(str) ==
    CHOOSE n \in 0..Len(str) :
        /\ \A k \in 1..n : str[k] \in 48..57
        /\ n = Len(str) \/ str[n + 1] \notin 48..57

\* the length of the lexeme digits '.' digits str begins with, 0 if none
FractionLexeme(str) ==
    IF /\ DigitRun(str) > 0
       /\ ByteAt(str, DigitRun(str)) = 46
       /\ DigitRun(Suffix(str, DigitRun(str) + 1)) > 0
    THEN DigitRun(str) + 1 + DigitRun(Suffix(str, DigitRun(str) + 1))
    ELSE 0

\* the decimal value of the n digits str begins with: that of zeros is 0
RECURSIVE DecimalValue(_, _)
DecimalValue(str, n) ==
    IF \A k \in 1..n : str[k] = 48 THEN 0
    ELSE DecimalValue(str, n - 1) * 10 + (str[n] - 48)

\* the Number token of a lexeme digits '.' digits and its one diagnostic
FractionTokenExpected ==
    /\ LastToken'.type = "TOKEN_NUMBER"
    /\ LastToken'.lexeme
         = [base |-> "source", off |-> skip_whitespace(lexer).current,
            text |-> ""]
    /\ LastToken'.lexeme_length = FractionLexeme(RestOfSource)
    /\ LastToken'.value
         = IntValue(DecimalValue(RestOfSource, DigitRun(RestOfSource)))
    /\ error_count' = error_count + 1
    /\ DiagnosticsAdded
         = SetToBag({[type |-> "ERROR_LEXICAL", severity |-> ERROR_WARNING,
                      message |->
                        "Floating-point numbers are not fully supported yet"]})

\* a call that scans a lexeme made of digits only
DigitsOnlyCall ==
    /\ ScanningCall
    /\ skip_whitespace(lexer).reports = <<>>
    /\ DigitRun(RestOfSource) > 0
    /\ FractionLexeme(RestOfSource) = 0

\* sizeof(number_str) in scan_number
NumberBuffer == 64

NextCalls(n) ==
    /\ Len(calls) = n
    /\ \A i \in 1..n : calls[i].fn = "lexer_next_token"

\* C19: every escape sequence accepted inside a string literal (\" \\ \r \t
\* \0 \n \b \f \v \a \uXXXX \xXX) is also accepted inside a character literal
\* and yields the same character value there; the character literal
\* additionally accepts \'.
C19_SameEscapes ==
    /\ \A body \in EscapeBodies :
           (/\ lexer.source = EscapePair(body)
            /\ NextCalls(2)
            /\ calls[1].token.type = "TOKEN_STRING")
               => /\ calls[2].token.type = "TOKEN_CHAR_LITERAL"
                  /\ CodepointsOf(calls[1].token.value.string)
                       = <<calls[2].token.value.int>>
    /\ (lexer.source = CharacterLiteral(<<92, 39>>) /\ NextCalls(1))
           => /\ calls[1].token.type = "TOKEN_CHAR_LITERAL"
              /\ calls[1].token.value = CharValue(39)

\* C20: for every valid Unicode scalar value c other than NUL, ' and \, the
\* character literal made of ' followed by the UTF-8 encoding of c followed
\* by ' yields a CharLiteral token whose value is c, with no diagnostic.
C20_CharacterLiteralValue ==
    \A body \in ScalarEncodings :
        (/\ lexer.source = CharacterLiteral(body)
         /\ WellFormed(body)
         /\ SequenceValue(body) \notin {0, 39, 92}
         /\ NextCalls(1))
            => /\ calls[1].token.type = "TOKEN_CHAR_LITERAL"
               /\ calls[1].token.value = CharValue(SequenceValue(body))
               /\ error_count = 0


\* the number the hexadecimal digits digits[i .. Len(digits)] write after
\* the value so far
RECURSIVE HexValue(_, _, _)
HexValue(digits, i, value) ==
    IF i > Len(digits) THEN value
    ELSE HexValue(digits, i + 1, value * 16 + HexDigitValue(digits[i]))

\* the UTF-8 encoding of a codepoint below U+10000 that is no surrogate
EncodingOf(c) ==
    IF c < 128 THEN <<c>>
    ELSE IF c < 2048 THEN <<192 + (c \div 64), 128 + (c % 64)>>
    ELSE <<224 + (c \div 4096), 128 + ((c \div 64) % 64), 128 + (c % 64)>>

\* the escapes \xXX of two digits and \uXXXX of four among EscapeBodies
FullHexEscapes ==
    {body \in EscapeBodies : \/ body[1] = 120 /\ Len(body) = 3
                             \/ body[1] = 117 /\ Len(body) = 5}

\* C21: in a string literal, \xXX with exactly two hex digits appends
\* exactly one byte of value XX to the string payload, and \uXXXX with
\* exactly four hex digits appends the UTF-8 encoding of codepoint XXXX
C21_HexEscapes ==
    \A body \in FullHexEscapes :
        (lexer.source = EscapePair(body) /\ NextCalls(1))
            => /\ calls[1].token.type = "TOKEN_STRING"
               /\ calls[1].token.value
                    = StringValue(IF body[1] = 120
                                  THEN <<HexValue(Tail(body), 1, 0)>>
                                  ELSE EncodingOf(HexValue(Tail(body), 1, 0)))


\* C22: every token returned by the lexer, of any kind and on any source,
\* has line >= 1 and column >= 1
C22_PositionsFromOne ==
    \A i \in 1..Len(calls) :
        calls[i].token.line >= 1 /\ calls[i].token.column >= 1

-----------------------------------------------------------------------------
(* The lexer on sources of several lines: newlines, a two-byte character,  *)
(* a digit, comment delimiters, a double quote and bytes that are not      *)
(* well-formed UTF-8.                                                      *)

\* a newline, U+0436 and the delimiters of a block comment
LineWords == {<<10>>, <<208, 182>>, <<47, 42>>, <<42, 47>>}

MaxLineWords == 3

RECURSIVE LineWordSources(_)
LineWordSources(n) ==
    IF n = 0 THEN {<<>>}
    ELSE {w \o s : w \in LineWords, s \in LineWordSources(n - 1)}

\* truncated two-, three- and four-byte sequences, a continuation byte
\* alone, a byte that is never part of UTF-8, literals that end of input or a
\* newline cuts, a line comment and blanks before tokens of the second line,
\* and a NUL byte of the file inside a line comment
TruncatedSources ==
    {<<47, 47, 97, 0, 98, 10, 99>>, <<226, 130>>, <<120, 240, 159, 152>>, <<128, 49>>, <<255>>,
     <<120, 226>>, <<208, 49>>, <<49, 208>>, <<208, 10, 208, 182>>,
     <<39, 240, 159>>, <<34, 226, 130>>, <<34, 10, 34, 49>>,
     <<47, 47, 208, 182, 10, 32, 32, 120, 32, 61, 61>>,
     <<47, 42, 10, 10, 42, 47, 9, 208, 182, 49, 32, 43>>}

LineSources ==
    UNION {LineWordSources(n) : n \in 0..MaxLineWords} \cup TruncatedSources

InitLexLines ==
    /\ CallIdle
    /\ ErrorIdle
    /\ AstIdle
    /\ ctype_outside \in BOOLEAN
    /\ \E source \in LineSources : lexer = lexer_init(source)
    /\ calls = <<>>

\* lexer_print_all_tokens(lexer)
LexerPrintAllTokens ==
    /\ Len(calls) < MaxCalls
    /\ LexerCall("lexer_print_all_tokens", lexer_print_all_tokens(lexer))

NextLexLines == LexerNextToken \/ LexerPeekToken \/ LexerPrintAllTokens

SpecLexLines == InitLexLines /\ [][NextLexLines]_vars


\* the number of newlines among the first n bytes of the source
NewlinesBefore(n) == Cardinality({i \in 1..n : lexer.source[i] = 10})

\* the index of the first byte of the line that holds the byte of index n
LineStart(n) ==
    LET newlines == {i \in 1..n : lexer.source[i] = 10}
    IN  IF newlines = {} THEN 0
        ELSE CHOOSE i \in newlines : \A j \in newlines : j <= i

\* the token is not an Error token and none of its bytes is a newline
OnOneLine(token) ==
    /\ token.type # "TOKEN_ERROR"
    /\ token.lexeme.base = "source"
    /\ \A i \in 1..token.lexeme_length :
           lexer.source[token.lexeme.off + i] # 10

\* C23: for every token returned that is not an Error token and lies on a
\* single source line, token.line is the 1-based number of the line of its
\* first byte and token.column is 1 plus the number of bytes between the
\* start of that line and its first byte: a newline resets the column to 1
\* and advances the line.
C23_LineAndColumn ==
    \A i \in 1..Len(calls) :
        OnOneLine(calls[i].token)
            => /\ calls[i].token.line
                    = 1 + NewlinesBefore(calls[i].token.lexeme.off)
               /\ calls[i].token.column
                    = 1 + calls[i].token.lexeme.off
                        - LineStart(calls[i].token.lexeme.off)

\* a token of two bytes was returned from the second line, behind a
\* character of two bytes
C23_Witness ==
    \E i \in 1..Len(calls) :
        /\ OnOneLine(calls[i].token)
        /\ calls[i].token.type = "TOKEN_IDENTIFIER"
        /\ calls[i].token.line = 2
        /\ calls[i].token.column = 3

\* the indexes of str, behind the two bytes that open a block comment, where
\* the two bytes that close it begin
Closers(str) ==
    {i \in 3..(Len(str) - 1) : str[i] = 42 /\ str[i + 1] = 47}

\* the index of str where the line comment str begins with ends: the first
\* newline, or the end of str
RECURSIVE LineCommentEnd(_, _)
LineCommentEnd(str, i) ==
    IF i > Len(str) \/ str[i] = 10 THEN i ELSE LineCommentEnd(str, i + 1)

\* the blanks and comments str begins with hold a block comment that no
\* "*/" closes before the end of str
RECURSIVE UnclosedComment(_)
UnclosedComment(str) ==
    IF str = <<>> THEN FALSE
    ELSE IF str[1] \in {32, 9, 13, 10} THEN UnclosedComment(Tail(str))
    ELSE IF Len(str) >= 2 /\ str[1] = 47 /\ str[2] = 47
        THEN UnclosedComment(SubSeq(str, LineCommentEnd(str, 1), Len(str)))
    ELSE IF Len(str) >= 2 /\ str[1] = 47 /\ str[2] = 42
        THEN IF Closers(str) = {} THEN TRUE
             ELSE UnclosedComment(
                      SubSeq(str,
                             2 + (CHOOSE i \in Closers(str) :
                                     \A j \in Closers(str) : i <= j),
                             Len(str)))
    ELSE FALSE

\* the call made added the warning of an unterminated block comment
UnterminatedCommentAdded ==
    \E e \in DOMAIN error_list' :
        /\ e.message = "Unterminated multi-line comment"
        /\ CopiesIn(e, error_list') > CopiesIn(e, error_list)

\* C24: a call that scans reports the Lexical Warning "Unterminated
\* multi-line comment" if and only if a block comment among the blanks and
\* comments it skips is not closed by "*/" before end of input; a closed
\* block comment, wherever it ends, gives no diagnostic.
C24_UnterminatedComment ==
    [][ScanningCall
          => (UnterminatedCommentAdded
                <=> UnclosedComment(Suffix(lexer.source, lexer.current)))]_vars

\* the same for the block comments that do not end with the source
C24_CommentBeforeEnd ==
    [][(ScanningCall /\ skip_whitespace(lexer).current < lexer.source_length)
          => (UnterminatedCommentAdded
                <=> UnclosedComment(Suffix(lexer.source, lexer.current)))]_vars

\* the unclosed comments are reported
C24_UnclosedReported ==
    [][(ScanningCall /\ UnclosedComment(Suffix(lexer.source, lexer.current)))
          => UnterminatedCommentAdded]_vars

\* the number of zeros str begins with
LeadingZeros(str) ==
    CHOOSE n \in 0..Len(str) :
        /\ \A k \in 1..n : str[k] = 48
        /\ n = Len(str) \/ str[n + 1] # 48

\* the decimal digits of the value of the n digits str begins with
ValueDigits(str, n) ==
    [i \in 1..(n - LeadingZeros(SubSeq(str, 1, n))) |->
         str[LeadingZeros(SubSeq(str, 1, n)) + i] - 48]

\* the integer value v is the decimal value of the n digits str begins with;
\* a value of more than nine digits is compared digit by digit
IsDecimalValue(v, str, n) ==
    IF Len(ValueDigits(str, n)) <= 9
    THEN v = DecimalValue(str, n)
    ELSE v = ValueDigits(str, n)

\* C25: every lexeme made of digits only and shorter than 64 bytes gives a
\* Number token whose integer value is the base-10 value of the digits
\* (leading zeros do not make it octal: 0123 is 123); a numeric lexeme of 64
\* bytes or more gives an Error token.
C25_DecimalValue ==
    [][DigitsOnlyCall
          => IF DigitRun(RestOfSource) < NumberBuffer
             THEN /\ LastToken'.type = "TOKEN_NUMBER"
                  /\ LastToken'.lexeme_length = DigitRun(RestOfSource)
                  /\ IsDecimalValue(LastToken'.value.int, RestOfSource,
                                    DigitRun(RestOfSource))
             ELSE LastToken'.type = "TOKEN_ERROR"]_vars

\* the same for the digits that denote at most LONG_MAX
C25_ValueUpToLongMax ==
    [][(DigitsOnlyCall /\ Len(ValueDigits(RestOfSource,
                                           DigitRun(RestOfSource))) <= 9)
          => IF DigitRun(RestOfSource) < NumberBuffer
             THEN /\ LastToken'.type = "TOKEN_NUMBER"
                  /\ LastToken'.value.int
                       = DecimalValue(RestOfSource, DigitRun(RestOfSource))
             ELSE LastToken'.type = "TOKEN_ERROR"]_vars

\* 0123 was scanned as the Number 123, and 1 behind 62 zeros as the Number 1
C25_LeadingZeros ==
    (NextCalls(1) /\ Len(lexer.source) \in {4, 63}
                  /\ LeadingZeros(lexer.source) > 0)
        => /\ LastToken.type = "TOKEN_NUMBER"
           /\ LastToken.value.int = IF Len(lexer.source) = 4 THEN 123 ELSE 1

\* the number of sequences of str that decode, scanning from offset p: a
\* sequence that decodes is passed whole, a byte that does not is passed alone
RECURSIVE DecodesFrom(_, _)
DecodesFrom(str, p) ==
    IF p >= Len(str) THEN 0
    ELSE IF utf8_decode(Suffix(str, p), StaleChar).ret = 0
        THEN DecodesFrom(str, p + 1)
    ELSE 1 + DecodesFrom(str, p + utf8_decode(Suffix(str, p), StaleChar).ret)

\* C26: utf8_strlen(s) returns the number of successful decodes when s is
\* scanned left to right, advancing by the decoded length on success and by
\* one byte on a failure; for well-formed UTF-8 this is the number of
\* codepoints, and for a null pointer or the empty string it is 0.
C26_StrlenCountsDecodes ==
    (pc = "done" /\ fn = "utf8_strlen")
        => IF arg.str = NULL THEN result.ret = 0
           ELSE /\ result.ret = DecodesFrom(arg.str, 0)
                /\ WellFormedString(arg.str)
                     => result.ret = Len(CodepointsOf(arg.str))
                /\ arg.str = <<>> => result.ret = 0

\* a string was measured in which a byte that does not decode stands before
\* two characters, and the string of the eight edge codepoints
C26_Witness ==
    /\ pc = "done"
    /\ fn = "utf8_strlen"
    /\ \/ arg.str = <<128, 65, 208, 191>> /\ result.ret = 2
       \/ Len(arg.str) = 24 /\ result.ret = 8

\* the descriptor t holds the values of the descriptor u, all but the tag
\* and the byte order
SameTarget(t, u) ==
    /\ t.word_size = u.word_size
    /\ t.pointer_size = u.pointer_size
    /\ t.stack_alignment = u.stack_alignment
    /\ t.asm_syntax = u.asm_syntax
    /\ t.registers = u.registers
    /\ t.calling_convention = u.calling_convention

\* the sizes and alignments of the descriptor t
Sizes(t) == <<t.word_size, t.stack_alignment, t.calling_convention.alignment>>

\* the descriptor t but for its byte order
TargetValues(arch, t) ==
    /\ t.pointer_size = t.word_size
    /\ t.asm_syntax = "intel"
    /\ arch = TARGET_ARCH_X86 => Sizes(t) = <<4, 4, 4>>
    /\ arch = TARGET_ARCH_X86_64 => Sizes(t) = <<8, 16, 16>>
    /\ arch \notin {TARGET_ARCH_X86, TARGET_ARCH_X86_64}
         => SameTarget(t, target_init_arch(TARGET_ARCH_X86_64, arg.info))

\* C27: for every architecture tag, target_init_arch returns a descriptor
\* with pointer_size = word_size, the little-endian byte order recorded in it
\* (big_endian false and endianness ENDIAN_LITTLE), the assembly syntax
\* "intel", and word size, stack alignment and calling-convention alignment
\* 4, 4, 4 for x86 and 8, 16, 16 for x86-64; for the unknown tag these values
\* and the register and calling-convention records are those of x86-64.
C27_TargetDescriptor ==
    (pc = "done" /\ fn = "target_init_arch")
        => /\ TargetValues(arg.arch, result.ret)
           /\ result.ret.big_endian = FALSE
           /\ result.ret.endianness = ENDIAN_LITTLE

\* the same without the member endianness
C27_ValuesAndFlag ==
    (pc = "done" /\ fn = "target_init_arch")
        => /\ TargetValues(arg.arch, result.ret)
           /\ result.ret.big_endian = FALSE

\* the number of the calls made so far that returned another token than Eof
TokensBeforeEof(made) ==
    Cardinality({i \in 1..Len(made) : made[i].token.type # "TOKEN_EOF"})

\* C28: with no peek calls, every lexer_next_token call that does not return
\* Eof consumes at least one byte of the source, so that at most as many
\* calls as the source has bytes return another token than Eof; once Eof has
\* been returned, every later lexer_next_token call returns Eof.
C28_ProgressToEof ==
    [][(LexerNextToken /\ NextCalls(Len(calls)))
          => /\ LastToken'.type # "TOKEN_EOF"
                  => lexer'.current > lexer.current
             /\ TokensBeforeEof(calls') <= lexer.source_length
             /\ (calls # <<>> /\ LastToken.type = "TOKEN_EOF")
                  => /\ LastToken'.type = "TOKEN_EOF"
                     /\ lexer'.current = lexer.current]_vars

\* two tokens were returned, then Eof twice
C28_Witness ==
    /\ NextCalls(4)
    /\ calls[1].token.type # "TOKEN_EOF"
    /\ calls[2].token.type # "TOKEN_EOF"
    /\ calls[3].token.type = "TOKEN_EOF"
    /\ calls[4].token.type = "TOKEN_EOF"

\* 0 <= start <= current <= source_length in the lexer lx
PositionsInBounds(lx) ==
    /\ 0 <= lx.start
    /\ lx.start <= lx.current
    /\ lx.current <= lx.source_length

\* the positions are in bounds after every lexer_next_token call of the loop
\* of lexer_print_all_tokens, the first of which returned n
RECURSIVE PrintLoopInBounds(_)
PrintLoopInBounds(n) ==
    /\ PositionsInBounds(n.lexer)
    /\ n.ret.type \notin {"TOKEN_ERROR", "TOKEN_EOF"}
         => PrintLoopInBounds(lexer_next_token(n.lexer))

\* C29: in every lexer state reached through lexer_init, lexer_next_token,
\* lexer_peek_token and lexer_print_all_tokens, whatever the bytes of the
\* source, 0 <= start <= current <= source_length, also in the states the
\* loop of lexer_print_all_tokens passes through.  No byte behind
\* source[source_length] is read: SourceAt has no value there, so that no
\* state is reached through such a read.
C29_PositionsInBounds ==
    /\ PositionsInBounds(lexer)
    /\ PrintLoopInBounds(lexer_next_token(
           [lexer EXCEPT !.current = 0, !.start = 0, !.line = 1,
                         !.column = 1, !.previous_column = 1,
                         !.has_next_token = FALSE]))

\* a token was peeked at behind a blank, after a sequence cut short, and all
\* tokens were printed
C29_Witness ==
    /\ \E i \in 1..Len(calls) : calls[i].fn = "lexer_print_all_tokens"
    /\ \E i \in 1..Len(calls) : calls[i].fn = "lexer_peek_token"
    /\ lexer.source = <<120, 240, 159, 152>>
    /\ lexer.current = lexer.source_length

\* the statics of error.c after the call made
ErrorStateAfter ==
    [error_count |-> error_count', error_list |-> error_list',
     error_log_file |-> error_log_file', released |-> released',
     notices |-> notices', exited |-> exited']

\* C30: each string owned by a retained entry is released exactly once: after
\* error_cleanup the registry holds no entries (error_get_count(-1) = 0), so
\* that an error_cleanup that follows another releases nothing, and one that
\* follows reports releases the strings of these reports only.
C30_ReleasedOnce ==
    [][ErrorCleanup
          => /\ error_get_count(ErrorStateAfter, -1) = 0
             /\ last.fn = "error_cleanup" => released' = released]_vars

\* an error_cleanup that follows another releases nothing
C30_SecondCleanup ==
    [][(ErrorCleanup /\ last.fn = "error_cleanup")
          => released' = released]_vars

\* error_cleanup releases the strings of every entry in use and closes the log
C30_CleanupReleasesAll ==
    [][ErrorCleanup
          => /\ released' = released (+) error_list
             /\ error_log_file' = "NULL"]_vars

====
